---- MODULE Spec2Model ----
(***************************************************************************)
(* A model of deppth: the byte-stream primitives (utils.py), the entry     *)
(* codec (entries.py), the chunk processors (compression.py) and the       *)
(* package reader, writer and patch engine (sggpio.py).                    *)
(*                                                                         *)
(* Bytes are the naturals 0..255, byte strings and text strings are        *)
(* sequences (text: a sequence of code points).  A Python exception is a   *)
(* result record with ok = FALSE.  None is the empty sequence <<>> and an  *)
(* optional value v is <<v>>.                                              *)
(***************************************************************************)
EXTENDS Integers, Sequences, FiniteSets, TLC

\* ------------------------------------------------------------------------
\* Bounds of the model
\* ------------------------------------------------------------------------

\* The chunk window.  sggpio.py:10 sets 0x2000000; the model scales it down
\* so that a handful of small entries crosses a chunk boundary.
CHUNK_SIZE == 16

\* How many write() calls a writer accepts before it is closed.
MaxWrites == 3

\* How many entries a reader is asked for: a reader that has consumed its
\* last chunk whole reads that chunk again, without end.
MaxYielded == 4

VARIABLES
  \* one package written and read back
  writer,    \* the PackageWriter
  wstate,    \* "open", "closed", "write_failed" or "close_failed"
  wres,      \* the last writer call and whether it returned normally
  wlog,      \* the entries whose bytes write() has accepted, in order
  reader,    \* the PackageReader over the closed file, or NoReader
  rres,      \* the last reader call and its result
  yielded,   \* the entries read_entry has returned, in order
  \* the entry codec and the byte-stream primitives on their own
  cx,
  \* packages with manifests in a directory: patch, the manifest couplings
  fs,        \* path -> <<>> (no such file) or <<bytes>>
  handles,   \* every raw file opened: its path and whether it is still open
  sess,      \* the manifest reader or writer in use
  res        \* the last call and its result

vars == <<writer, wstate, wres, wlog, reader, rres, yielded,
          cx, fs, handles, sess, res>>

pkgVars == <<writer, wstate, wres, wlog, reader, rres, yielded>>

fileVars == <<fs, handles, sess, res>>

\* ------------------------------------------------------------------------
\* Python sequences
\* ------------------------------------------------------------------------

\* LET name == v IN K, with v evaluated at most once
Let(v, K(_)) == K(v)

Min(a, b) == IF a < b THEN a ELSE b

Max(a, b) == IF a > b THEN a ELSE b

\* seq[i:j] with Python's clamping of negative and oversized indices
\* (0-based, j exclusive).
PySlice(seq, i, j) ==
  Let(Len(seq), LAMBDA n :
  Let(IF i < 0 THEN Max(n + i, 0) ELSE Min(i, n), LAMBDA i1 :
  Let(IF j < 0 THEN Max(n + j, 0) ELSE Min(j, n), LAMBDA j1 :
      IF j1 <= i1 THEN <<>> ELSE SubSeq(seq, i1 + 1, j1))))

\* seq[i:]
PyFrom(seq, i) == PySlice(seq, i, Len(seq))

\* bytes(n): n zero bytes
Zeros(n) == [k \in 1..n |-> 0]

\* b.ljust(n, b'\x00')
LJust(b, n) == IF Len(b) >= n THEN b ELSE b \o Zeros(n - Len(b))

RECURSIVE Pow2(_)
Pow2(n) == IF n = 0 THEN 1 ELSE 2 * Pow2(n - 1)

\* n.to_bytes(k, 'big') of a non-negative n < 256^k
RECURSIVE ToBytesBE(_, _)
ToBytesBE(n, k) ==
  IF k = 0 THEN <<>> ELSE Append(ToBytesBE(n \div 256, k - 1), n % 256)

\* int.from_bytes(b, 'big'), unsigned, of a value below 2^31
RECURSIVE FromBytesBE(_)
FromBytesBE(b) ==
  IF Len(b) = 0 THEN 0
  ELSE 256 * FromBytesBE(SubSeq(b, 1, Len(b) - 1)) + b[Len(b)]

\* int.from_bytes(b, 'big', signed=True) of at most four bytes: two's
\* complement in 8*len(b) bits.  The sign bit is taken off before the value
\* is formed, so that no intermediate value leaves the 32-bit range.
FromBytesBESigned(b) ==
  IF Len(b) = 0 THEN 0
  ELSE IF b[1] < 128 THEN FromBytesBE(b)
  ELSE Let(Pow2(8 * Len(b) - 2), LAMBDA quarter :
           FromBytesBE(<<b[1] - 128>> \o Tail(b)) - quarter - quarter)

\* bitwise and / or of naturals
RECURSIVE BitAnd(_, _)
BitAnd(a, b) ==
  IF a = 0 \/ b = 0 THEN 0
  ELSE (a % 2) * (b % 2) + 2 * BitAnd(a \div 2, b \div 2)

RECURSIVE BitOr(_, _)
BitOr(a, b) ==
  IF a = 0 THEN b
  ELSE IF b = 0 THEN a
  ELSE Max(a % 2, b % 2) + 2 * BitOr(a \div 2, b \div 2)

\* ------------------------------------------------------------------------
\* io.BytesIO / io.FileIO as a byte string and a position
\* ------------------------------------------------------------------------

\* stream.read(n) of a FileIO or BytesIO at position pos: n < 0 reads to the
\* end, a position past the end reads nothing.
FileRead(raw, pos, n) ==
  Let(IF n < 0 THEN PyFrom(raw, pos) ELSE PySlice(raw, pos, pos + n), LAMBDA data :
      [data |-> data, pos |-> pos + Len(data)])

\* IOExtensionMixin.is_eof on a raw file: read one byte, seek back if any.
FileIsEof(raw, pos) == FileRead(raw, pos, 1).data = <<>>

\* ------------------------------------------------------------------------
\* compression.py: the chunk processors
\* ------------------------------------------------------------------------

\* The registered type codes: _chunk_processors (by byte code).
ChunkProcessorCodes == {0, 32, 64, 96}

\* The registered names: _chunk_processors_by_name.
ChunkProcessorNames == {"uncompressed", "lz4", "lzf", "lzx"}

\* class of the processor registered for a byte code
ProcessorOfCode(code) ==
  CASE code = 0  -> "uncompressed"
    [] code = 32 -> "lz4"
    [] code = 64 -> "lzf"
    [] code = 96 -> "lzx"

\* cls._typeCode
TypeCodeOf(proc) ==
  CASE proc = "uncompressed" -> 0
    [] proc = "lz4" -> 32
    [] proc = "lzf" -> 64
    [] proc = "lzx" -> 96

\* A compressor given to a package object: a symbolic name or (what a reader
\* keeps after reading the header) the header's type-code bytes.
CompressorName(n) == [form |-> "name", name |-> n]

CompressorCode(bs) == [form |-> "code", code |-> bs]

\* the number of zero bytes a chunk ends with
RECURSIVE TrailingZeros(_)
TrailingZeros(b) ==
  IF Len(b) = 0 \/ b[Len(b)] # 0 THEN 0
  ELSE 1 + TrailingZeros(SubSeq(b, 1, Len(b) - 1))

\* compress(chunk) of the lz4 and lzf processors.  The libraries are outside
\* the repository; the model is a lossless codec of its own (the count of
\* trailing zero bytes, then the chunk without them) so that what is stored
\* differs from the chunk and only decompress gives the chunk back.
compress(proc, chunk) ==
  IF proc = "lzx" THEN [ok |-> FALSE, data |-> <<>>]
  ELSE Let(TrailingZeros(chunk), LAMBDA z :
           [ok |-> TRUE,
            data |-> <<z>> \o SubSeq(chunk, 1, Len(chunk) - z)])

\* decompress(chunk, chunk_size): the library's output, zero-filled to
\* chunk_size by ljust.  The library fails on an empty input and on an output
\* longer than uncompressed_size.
decompress(proc, data, chunk_size) ==
  IF proc = "lzx" \/ Len(data) = 0 THEN [ok |-> FALSE, data |-> <<>>]
  ELSE Let(PyFrom(data, 1) \o Zeros(data[1]), LAMBDA out :
           IF Len(out) > chunk_size THEN [ok |-> FALSE, data |-> <<>>]
           ELSE [ok |-> TRUE, data |-> LJust(out, chunk_size)])

\* stream.read(1) != 0 in _CompressedChunkProcessor: a bytes object never
\* equals the int 0, so the test is true whatever the flag byte is.
FlagByteIsNotZero(flag) == TRUE

\* read_chunk(stream, chunk_size) of processor proc on the raw file at pos.
read_chunk(proc, raw, pos, chunk_size) ==
  IF proc = "uncompressed"
  THEN Let(FileRead(raw, pos, chunk_size), LAMBDA r :
           [ok |-> TRUE, data |-> r.data, pos |-> r.pos])
  ELSE Let(FileRead(raw, pos, 1), LAMBDA flag :
           IF FlagByteIsNotZero(flag.data)
           THEN Let(FileRead(raw, flag.pos, 4), LAMBDA szb :
                Let(FromBytesBESigned(szb.data), LAMBDA compSize :
                Let(FileRead(raw, szb.pos, compSize), LAMBDA body :
                Let(decompress(proc, body.data, chunk_size), LAMBDA d :
                    [ok |-> d.ok, data |-> d.data, pos |-> body.pos]))))
           ELSE Let(FileRead(raw, flag.pos, chunk_size), LAMBDA r :
                    [ok |-> TRUE, data |-> r.data, pos |-> r.pos]))

\* write_chunk(stream, chunk): the bytes appended to the raw file.
write_chunk(proc, chunk) ==
  IF proc = "uncompressed" THEN [ok |-> TRUE, data |-> chunk]
  ELSE Let(compress(proc, chunk), LAMBDA c :
           [ok |-> c.ok,
            data |-> <<1>> \o ToBytesBE(Len(c.data), 4) \o c.data])

\* skip_chunk(stream, chunk_size): the raw position afterwards.  seek with
\* SEEK_CUR may pass the end of the file; a negative target raises.
skip_chunk(proc, raw, pos, chunk_size) ==
  IF proc = "uncompressed"
  THEN [ok |-> TRUE, pos |-> pos + chunk_size]
  ELSE Let(FileRead(raw, pos, 1), LAMBDA flag :
           IF FlagByteIsNotZero(flag.data)
           THEN Let(FileRead(raw, flag.pos, 4), LAMBDA szb :
                Let(FromBytesBESigned(szb.data), LAMBDA compSize :
                    IF szb.pos + compSize < 0
                    THEN [ok |-> FALSE, pos |-> szb.pos]
                    ELSE [ok |-> TRUE, pos |-> szb.pos + compSize]))
           ELSE [ok |-> TRUE, pos |-> flag.pos + chunk_size])

\* ------------------------------------------------------------------------
\* sggpio.py: PackageIO and PackageReader
\* ------------------------------------------------------------------------

PACKAGE_VERSION_HADES == 7

PACKAGE_VERSION_PYRE == 5

PACKAGE_VERSIONS == {PACKAGE_VERSION_HADES, PACKAGE_VERSION_PYRE}

ENTRY_CODE_END_OF_CHUNK == 190

ENTRY_CODE_END_OF_FILE == 255

\* PackageIO._get_chunkprocessor: a compressor of length 1 is looked up by
\* byte code, any other by name; an unregistered key raises KeyError.
\* (Python's len() of the name: every registered name is longer than 1.)
GetChunkProcessor(c) ==
  IF c.form = "code" /\ Len(c.code) = 1
  THEN IF c.code[1] \in ChunkProcessorCodes
       THEN [ok |-> TRUE, proc |-> ProcessorOfCode(c.code[1])]
       ELSE [ok |-> FALSE, proc |-> ""]
  ELSE IF c.form = "name" /\ c.name \in ChunkProcessorNames
       THEN [ok |-> TRUE, proc |-> c.name]
       ELSE [ok |-> FALSE, proc |-> ""]

\* PackageIO.__init__ in mode 'r' followed by PackageReader._reset_read_buf:
\* the reader before its header is read.
NewReader(raw, is_manifest) ==
  [kind        |-> "pkg",
   raw         |-> raw,
   rawpos      |-> 0,
   closed      |-> FALSE,
   vpos        |-> <<0, 0>>,
   chunklocs   |-> <<4>>,
   compressor  |-> CompressorName("uncompressed"),
   proc        |-> "",
   version     |-> PACKAGE_VERSION_HADES,
   is_manifest |-> is_manifest,
   read_buf    |-> <<>>,
   read_pos    |-> 0]

\* PackageReader._read_header.  ord() of an empty read raises TypeError, an
\* unregistered codec byte raises KeyError.
ReadHeader(rd) ==
  Let(FileRead(rd.raw, rd.rawpos, 1), LAMBDA c :
  Let(GetChunkProcessor(CompressorCode(c.data)), LAMBDA gp :
  Let(FileRead(rd.raw, c.pos, 2), LAMBDA z :
  Let(FileRead(rd.raw, z.pos, 1), LAMBDA v :
  Let(        [rd EXCEPT !.compressor = CompressorCode(c.data),
                         !.rawpos = c.pos], LAMBDA rd1 :
      IF rd.rawpos # 0 THEN [ok |-> FALSE, rd |-> rd]
      ELSE IF ~gp.ok THEN [ok |-> FALSE, rd |-> rd1]
      ELSE IF Len(v.data) # 1
           THEN [ok |-> FALSE, rd |-> [rd1 EXCEPT !.proc = gp.proc,
                                                  !.rawpos = v.pos]]
      ELSE [ok |-> TRUE,
            rd |-> [rd1 EXCEPT !.proc = gp.proc,
                               !.rawpos = v.pos,
                               !.version = v.data[1],
                               !.vpos = <<rd.vpos[1], 4>>]])))))

\* PackageReader.__init__
OpenReader(raw, is_manifest) == ReadHeader(NewReader(raw, is_manifest))

\* PackageIO.tell
Tell(io) == io.vpos[1] * CHUNK_SIZE + io.vpos[2]

\* PackageReader.is_eof
ReaderIsEof(rd) ==
  FileIsEof(rd.raw, rd.rawpos) /\ rd.read_pos >= Len(rd.read_buf)

\* PackageReader._reset_read_buf
ResetReadBuf(rd) == [rd EXCEPT !.read_buf = <<>>, !.read_pos = 0]

\* The window of the chunk that starts at raw position pos.
ChunkSizeAt(pos) == IF pos <= 4 THEN CHUNK_SIZE - pos ELSE CHUNK_SIZE

\* PackageReader._read_chunk: none is TRUE for the None result.
ReadChunk(rd) ==
  IF FileIsEof(rd.raw, rd.rawpos)
  THEN [ok |-> TRUE, none |-> TRUE, rd |-> rd]
  ELSE Let(read_chunk(rd.proc, rd.raw, rd.rawpos, ChunkSizeAt(rd.rawpos)), LAMBDA r :
           IF ~r.ok
           THEN [ok |-> FALSE, none |-> FALSE,
                 rd |-> [rd EXCEPT !.rawpos = r.pos]]
           ELSE [ok |-> TRUE, none |-> FALSE,
                 rd |-> [rd EXCEPT !.rawpos = r.pos,
                                   !.read_buf = r.data,
                                   !.read_pos = 0,
                                   !.vpos = <<rd.vpos[1], 0>>]])

\* PackageReader._read_from_buffer
ReadFromBuffer(rd, amt) ==
  [ok   |-> TRUE,
   data |-> PySlice(rd.read_buf, rd.read_pos, rd.read_pos + amt),
   s    |-> [rd EXCEPT !.read_pos = rd.read_pos + amt,
                       !.vpos = <<rd.vpos[1], rd.vpos[2] + amt>>]]

\* The while loop of PackageReader.read: load chunks until the request is
\* satisfied or the raw file is at its end.  A chunk taken whole leaves
\* _read_pos and virtual_pos as _read_chunk set them.
RECURSIVE ReadLoop(_, _, _, _)
ReadLoop(rd, size, num_bytes_read, data) ==
  Let(ReadChunk(rd), LAMBDA c :
      IF ~c.ok THEN [ok |-> FALSE, data |-> data, s |-> c.rd]
      ELSE IF c.none THEN [ok |-> TRUE, data |-> data, s |-> c.rd]
      ELSE IF Len(c.rd.read_buf) < size - num_bytes_read
           THEN ReadLoop(c.rd, size, num_bytes_read + Len(c.rd.read_buf),
                         data \o c.rd.read_buf)
           ELSE Let(ReadFromBuffer(c.rd, size - num_bytes_read), LAMBDA r :
                    [ok |-> TRUE, data |-> data \o r.data, s |-> r.s]))

\* PackageReader.read(size)
PkgRead(rd, size) ==
  Let(Len(rd.read_buf) - rd.read_pos, LAMBDA num_bytes_to_read :
      IF size <= num_bytes_to_read
      THEN ReadFromBuffer(rd, size)
      ELSE ReadLoop(rd, size, num_bytes_to_read,
                    PyFrom(rd.read_buf, rd.read_pos)))

\* ------------------------------------------------------------------------
\* utils.py: IOExtensionMixin on a stream that is a BytesIO or a reader
\* ------------------------------------------------------------------------

\* _BytesIO(data)
BytesIO(data) == [kind |-> "bytes", data |-> data, pos |-> 0]

\* A method call on a stream object.  The mixin's readers call stream.read,
\* PackageReader.read_entry hands the reader itself to get_entry as the
\* stream, and the entry classes call the mixin's readers on it: the methods
\* of a stream reach one another through the object, which StreamCall
\* resolves by the method's name (defined after read_entry below).
RECURSIVE StreamCall(_, _, _)

\* io.BytesIO.read(n) / PackageReader.read(n), by the stream's class
StreamRead(s, n) ==
  IF s.kind = "bytes"
  THEN Let(FileRead(s.data, s.pos, n), LAMBDA r :
           [ok |-> TRUE, data |-> r.data, s |-> [s EXCEPT !.pos = r.pos]])
  ELSE PkgRead(s, n)

\* stream.read(n) on either kind of stream
SRead(s, n) == StreamCall(s, "read", n)

\* bytes.decode('ascii'): every byte below 128, else UnicodeDecodeError
AsciiDecode(b) ==
  [ok |-> \A i \in 1..Len(b) : b[i] < 128, v |-> b]

\* str.encode('utf-8') for code points below 0x800
RECURSIVE Utf8Encode(_)
Utf8Encode(str) ==
  IF Len(str) = 0 THEN <<>>
  ELSE Let(str[1], LAMBDA c :
           (IF c < 128 THEN <<c>>
            ELSE <<192 + (c \div 64), 128 + (c % 64)>>)
           \o Utf8Encode(Tail(str)))

\* bytes.decode('utf-8') for one- and two-byte sequences; a stray
\* continuation byte, a truncated sequence or an overlong form raises.
RECURSIVE Utf8Decode(_)
Utf8Decode(b) ==
  IF Len(b) = 0 THEN [ok |-> TRUE, v |-> <<>>]
  ELSE IF b[1] < 128
       THEN Let(Utf8Decode(Tail(b)), LAMBDA r :
                [ok |-> r.ok, v |-> <<b[1]>> \o r.v])
  ELSE IF b[1] >= 194 /\ b[1] < 224 /\ Len(b) >= 2
          /\ b[2] >= 128 /\ b[2] < 192
       THEN Let(Utf8Decode(Tail(Tail(b))), LAMBDA r :
                [ok |-> r.ok,
                 v |-> <<(b[1] - 192) * 64 + (b[2] - 128)>> \o r.v])
  ELSE [ok |-> FALSE, v |-> <<>>]

\* IOExtensionMixin.read_string
read_string(s) ==
  Let(SRead(s, 1), LAMBDA l :
  Let(FromBytesBE(l.data), LAMBDA length :
  Let(SRead(l.s, length), LAMBDA b :
  Let(AsciiDecode(b.data), LAMBDA d :
      IF ~l.ok THEN [ok |-> FALSE, v |-> <<>>, s |-> l.s]
      ELSE [ok |-> b.ok /\ d.ok, v |-> d.v, s |-> b.s]))))

\* IOExtensionMixin.write_string, for an ASCII string of at most 255
\* characters (longer ones raise, as does a non-ASCII character).
write_string(str) == <<Len(str)>> \o str

\* IOExtensionMixin.read_big_string
read_big_string(s) ==
  Let(SRead(s, 4), LAMBDA l :
  Let(FromBytesBESigned(l.data), LAMBDA length :
  Let(SRead(l.s, length), LAMBDA b :
  Let(Utf8Decode(b.data), LAMBDA d :
      IF ~l.ok THEN [ok |-> FALSE, v |-> <<>>, s |-> l.s]
      ELSE [ok |-> b.ok /\ d.ok, v |-> d.v, s |-> b.s]))))

\* n.to_bytes(4, 'big', signed=True) for n in the int32 range
Int32Bytes(n) ==
  IF n >= 0 THEN ToBytesBE(n, 4)
  ELSE Let((n + Pow2(30)) + Pow2(30), LAMBDA m :
       Let(ToBytesBE(m, 4), LAMBDA b :
           <<b[1] + 128>> \o Tail(b)))

\* IOExtensionMixin.write_big_string: the length written is len(s), the
\* number of characters, while the body is the UTF-8 encoding.
write_big_string(str) == Int32Bytes(Len(str)) \o Utf8Encode(str)

\* IOExtensionMixin.read_int (big-endian): a short read is converted as it is
read_int(s) ==
  Let(SRead(s, 4), LAMBDA b :
      [ok |-> b.ok, v |-> FromBytesBESigned(b.data), s |-> b.s])

\* int.from_bytes(stream.read(4), byteorder='big').  A value of 2^31 or more
\* is kept as 2^31 - 1: it is only ever used as a loop count, and a loop of
\* either length ends when the stream runs out.
read_uint(s) ==
  Let(SRead(s, 4), LAMBDA b :
      [ok |-> b.ok,
       v  |-> IF Len(b.data) = 4 /\ b.data[1] >= 128 THEN 2147483647
              ELSE FromBytesBE(b.data),
       s  |-> b.s])

\* IOExtensionMixin.write_int
write_int(n) == Int32Bytes(n)

\* A single-precision value: sign, biased exponent and 23-bit mantissa.
\* (The floats of an entry read from a package are all of this form.)
Single(sign, exp, mant) == [sign |-> sign, exp |-> exp, mant |-> mant]

\* struct.unpack('>f', b)
UnpackSingle(b) ==
  Single(b[1] \div 128,
         (b[1] % 128) * 2 + (b[2] \div 128),
         (b[2] % 128) * 65536 + b[3] * 256 + b[4])

\* struct.pack('>f', f)
PackSingle(f) ==
  <<f.sign * 128 + (f.exp \div 2),
    (f.exp % 2) * 128 + (f.mant \div 65536),
    (f.mant \div 256) % 256,
    f.mant % 256>>

\* IOExtensionMixin.read_single; struct.unpack raises unless it is given
\* exactly four bytes.
read_single(s) ==
  Let(SRead(s, 4), LAMBDA b :
      IF b.ok /\ Len(b.data) = 4
      THEN [ok |-> TRUE, v |-> UnpackSingle(b.data), s |-> b.s]
      ELSE [ok |-> FALSE, v |-> Single(0, 0, 0), s |-> b.s])

\* IOExtensionMixin.write_single
write_single(f) == PackSingle(f)

\* IOExtensionMixin.read_7bit_encoded_int; ord() of an empty read raises.
RECURSIVE Read7BitLoop(_, _, _)
Read7BitLoop(s, result, index) ==
  Let(SRead(s, 1), LAMBDA b :
      IF ~b.ok \/ Len(b.data) # 1 THEN [ok |-> FALSE, v |-> result, s |-> b.s]
      ELSE Let(b.data[1], LAMBDA byte_value :
           Let(result + (byte_value % 128) * Pow2(7 * index), LAMBDA r :
               IF byte_value < 128 THEN [ok |-> TRUE, v |-> r, s |-> b.s]
               ELSE Read7BitLoop(b.s, r, index + 1))))

read_7bit_encoded_int(s) == Read7BitLoop(s, 0, 0)

\* IOExtensionMixin.write_7bit_encoded_int
RECURSIVE Write7BitLoop(_)
Write7BitLoop(value) ==
  IF value >= 128
  THEN <<BitOr(value, 128) % 256>> \o Write7BitLoop(value \div 128)
  ELSE <<value % 256>>

write_7bit_encoded_int(n) == Write7BitLoop(IF n < 0 THEN -n ELSE n)

\* ------------------------------------------------------------------------
\* entries.py: the entry codec
\* ------------------------------------------------------------------------

\* The registered entry type codes: _entry_types.
EntryTypeOfCode(code) ==
  CASE code = 173 -> "texture"
    [] code = 170 -> "texture3d"
    [] code = 187 -> "bink"
    [] code = 222 -> "atlas"
    [] code = 238 -> "binkAtlas"
    [] code = 204 -> "include"
    [] code = 240 -> "spine"
    [] OTHER      -> ""

\* cls._typeCode
EntryTypeCode(type) ==
  CASE type = "texture"   -> 173
    [] type = "texture3d" -> 170
    [] type = "bink"      -> 187
    [] type = "atlas"     -> 222
    [] type = "binkAtlas" -> 238
    [] type = "include"   -> 204
    [] type = "spine"     -> 240

\* The literal that announces a versioned atlas, 0x7FB1776B, and the byte
\* that announces a referenced texture.
ATLAS_MAGIC == 2142336875

ATLAS_REFERENCE == 221

\* The single 1.0
SINGLE_ONE == Single(0, 127, 0)

\* k consecutive read_int calls
RECURSIVE ReadInts(_, _)
ReadInts(s, k) ==
  IF k = 0 THEN [ok |-> TRUE, v |-> <<>>, s |-> s]
  ELSE Let(read_int(s), LAMBDA a :
           IF ~a.ok THEN [ok |-> FALSE, v |-> <<>>, s |-> a.s]
           ELSE Let(ReadInts(a.s, k - 1), LAMBDA r :
                    [ok |-> r.ok, v |-> <<a.v>> \o r.v, s |-> r.s]))

\* XNBAssetEntryBase.read_from (texture and texture3d)
XNBAsset_read_from(type, s) ==
  Let(read_string(s), LAMBDA n :
  Let(read_int(n.s), LAMBDA z :
  Let(SRead(z.s, z.v), LAMBDA d :
      IF ~n.ok THEN [ok |-> FALSE, v |-> <<>>, s |-> n.s]
      ELSE IF ~z.ok THEN [ok |-> FALSE, v |-> <<>>, s |-> z.s]
      ELSE [ok |-> d.ok,
            v  |-> [type |-> type, name |-> n.v, manifest_entry |-> <<>>,
                    size |-> z.v, data |-> d.data],
            s  |-> d.s])))

\* XNBAssetEntryBase.write_to
XNBAsset_write_to(e) == write_string(e.name) \o write_int(e.size) \o e.data

\* BinkEntry.read_from
Bink_read_from(s) ==
  Let(SRead(s, 1), LAMBDA f :
  Let(f.data = <<255>>, LAMBDA ext :
  Let(read_int(f.s), LAMBDA num :
  Let(SRead(num.s, 1), LAMBDA sk :
  Let(read_single(sk.s), LAMBDA sc :
  Let(ext /\ num.v > 0, LAMBDA hasScaling :
  Let(IF ~ext THEN f.s ELSE IF hasScaling THEN sc.s ELSE sk.s, LAMBDA s1 :
  Let(read_string(s1), LAMBDA n :
      IF ~f.ok THEN [ok |-> FALSE, v |-> <<>>, s |-> f.s]
      ELSE IF ext /\ (~num.ok \/ ~sk.ok)
           THEN [ok |-> FALSE, v |-> <<>>, s |-> sk.s]
      ELSE IF hasScaling /\ ~sc.ok THEN [ok |-> FALSE, v |-> <<>>, s |-> sc.s]
      ELSE [ok |-> n.ok,
            v  |-> [type |-> "bink", name |-> n.v, manifest_entry |-> <<>>,
                    isAlpha |-> (f.data = <<1>>),
                    scaling |-> IF hasScaling THEN sc.v ELSE SINGLE_ONE],
            s  |-> n.s]))))))))

\* BinkEntry.write_to: the body is `pass`, nothing is written.
Bink_write_to(e) == <<>>

\* The hull of a sub-atlas: hullCount points of two ints each.
RECURSIVE ReadHull(_, _)
ReadHull(s, count) ==
  IF count <= 0 THEN [ok |-> TRUE, v |-> <<>>, s |-> s]
  ELSE Let(ReadInts(s, 2), LAMBDA p :
           IF ~p.ok THEN [ok |-> FALSE, v |-> <<>>, s |-> p.s]
           ELSE Let(ReadHull(p.s, count - 1), LAMBDA r :
                    [ok |-> r.ok,
                     v  |-> <<[x |-> p.v[1], y |-> p.v[2]]>> \o r.v,
                     s  |-> r.s]))

\* The decoding of the flag byte in AtlasEntry.read_from (lines 422-431).
AtlasFlags(version, flags) ==
  [isMulti  |-> version > 1 /\ BitAnd(flags, 1) # 0,
   isMip    |-> version > 1 /\ BitAnd(flags, 2) # 0,
   isAlpha8 |-> version > 3 /\ BitAnd(flags, 4) # 0]

\* One iteration of the sub-atlas loop of AtlasEntry.read_from.
ReadSubAtlas(s, version) ==
  Let(read_string(s), LAMBDA n :
  Let(ReadInts(n.s, 8), LAMBDA i :
  Let(read_single(i.s), LAMBDA sx :
  Let(read_single(sx.s), LAMBDA sy :
  Let(SRead(sy.s, 1), LAMBDA fb :
  Let(AtlasFlags(version, IF Len(fb.data) = 1 THEN fb.data[1] ELSE 0), LAMBDA fl :
  Let(IF version > 0 THEN fb.s ELSE sy.s, LAMBDA s1 :
  Let(read_int(s1), LAMBDA hc :
  Let(ReadHull(hc.s, hc.v), LAMBDA h :
  Let(IF version > 2 THEN h.s ELSE s1, LAMBDA s2 :
      IF ~n.ok THEN [ok |-> FALSE, v |-> <<>>, s |-> n.s]
      ELSE IF ~i.ok THEN [ok |-> FALSE, v |-> <<>>, s |-> i.s]
      ELSE IF ~sx.ok THEN [ok |-> FALSE, v |-> <<>>, s |-> sx.s]
      ELSE IF ~sy.ok THEN [ok |-> FALSE, v |-> <<>>, s |-> sy.s]
      ELSE IF version > 0 /\ (~fb.ok \/ Len(fb.data) # 1)
           THEN [ok |-> FALSE, v |-> <<>>, s |-> fb.s]
      ELSE IF version > 2 /\ (~hc.ok \/ ~h.ok)
           THEN [ok |-> FALSE, v |-> <<>>, s |-> h.s]
      ELSE [ok |-> TRUE,
            v  |-> [name |-> n.v,
                    rect |-> [x |-> i.v[1], y |-> i.v[2],
                              width |-> i.v[3], height |-> i.v[4]],
                    topLeft |-> [x |-> i.v[5], y |-> i.v[6]],
                    originalSize |-> [x |-> i.v[7], y |-> i.v[8]],
                    scaleRatio |-> [x |-> sx.v, y |-> sy.v],
                    isMulti |-> fl.isMulti,
                    isMip |-> fl.isMip,
                    isAlpha8 |-> fl.isAlpha8,
                    hull |-> IF version > 2 THEN h.v ELSE <<>>],
            s  |-> s2]))))))))))

RECURSIVE ReadSubAtlases(_, _, _)
ReadSubAtlases(s, version, count) ==
  IF count <= 0 THEN [ok |-> TRUE, v |-> <<>>, s |-> s]
  ELSE Let(ReadSubAtlas(s, version), LAMBDA a :
           IF ~a.ok THEN [ok |-> FALSE, v |-> <<>>, s |-> a.s]
           ELSE Let(ReadSubAtlases(a.s, version, count - 1), LAMBDA r :
                    [ok |-> r.ok, v |-> <<a.v>> \o r.v, s |-> r.s]))

\* AtlasEntry.read_from
Atlas_read_from(s, isManifest) ==
  Let(SRead(s, 4), LAMBDA sz :
  Let(read_uint(sz.s), LAMBDA c0 :
  Let(c0.v = ATLAS_MAGIC, LAMBDA magic :
  Let(read_int(c0.s), LAMBDA ver :
  Let(read_int(ver.s), LAMBDA c1 :
  Let(IF magic THEN ver.v ELSE 0, LAMBDA version :
  Let(IF magic THEN c1.v ELSE c0.v, LAMBDA count :
  Let(IF magic THEN c1.s ELSE c0.s, LAMBDA s1 :
  Let(ReadSubAtlases(s1, version, count), LAMBDA subs :
  Let(SRead(subs.s, 1), LAMBDA rb :
  Let(FromBytesBE(rb.data) = ATLAS_REFERENCE \/ isManifest, LAMBDA ref :
  Let(read_string(rb.s), LAMBDA rn :
  Let(XNBAsset_read_from("texture", rb.s), LAMBDA tex :
      IF ~sz.ok \/ ~c0.ok THEN [ok |-> FALSE, v |-> <<>>, s |-> c0.s]
      ELSE IF magic /\ (~ver.ok \/ ~c1.ok)
           THEN [ok |-> FALSE, v |-> <<>>, s |-> c1.s]
      ELSE IF ~subs.ok THEN [ok |-> FALSE, v |-> <<>>, s |-> subs.s]
      ELSE IF ~rb.ok THEN [ok |-> FALSE, v |-> <<>>, s |-> rb.s]
      ELSE IF ref
           THEN [ok |-> rn.ok,
                 v  |-> [type |-> "atlas", name |-> rn.v,
                         manifest_entry |-> <<>>,
                         version |-> version, subAtlases |-> subs.v,
                         isReference |-> TRUE,
                         referencedTextureName |-> <<rn.v>>,
                         includedTexture |-> <<>>],
                 s  |-> rn.s]
           ELSE [ok |-> tex.ok,
                 v  |-> [type |-> "atlas",
                         name |-> IF tex.ok THEN tex.v.name ELSE <<>>,
                         manifest_entry |-> <<>>,
                         version |-> version, subAtlases |-> subs.v,
                         isReference |-> FALSE,
                         referencedTextureName |-> <<>>,
                         includedTexture |-> IF tex.ok THEN <<tex.v>>
                                             ELSE <<>>],
                 s  |-> tex.s])))))))))))))

\* The sub-atlas loop body of AtlasEntry.write_to (lines 466-489).
RECURSIVE WriteHull(_)
WriteHull(hull) ==
  IF Len(hull) = 0 THEN <<>>
  ELSE write_int(hull[1].x) \o write_int(hull[1].y) \o WriteHull(Tail(hull))

WriteSubAtlas(sub, version) ==
  write_string(sub.name)
  \o write_int(sub.rect.x) \o write_int(sub.rect.y)
  \o write_int(sub.rect.width) \o write_int(sub.rect.height)
  \o write_int(sub.topLeft.x) \o write_int(sub.topLeft.y)
  \o write_int(sub.originalSize.x) \o write_int(sub.originalSize.y)
  \o write_single(sub.scaleRatio.x) \o write_single(sub.scaleRatio.y)
  \o (IF version > 0
      THEN <<(IF sub.isMulti THEN 1 ELSE 0) + (IF sub.isMip THEN 2 ELSE 0)
             + (IF sub.isAlpha8 THEN 4 ELSE 0)>>
      ELSE <<>>)
  \o (IF version > 2
      THEN write_int(Len(sub.hull)) \o WriteHull(sub.hull)
      ELSE <<>>)

RECURSIVE WriteSubAtlases(_, _)
WriteSubAtlases(subs, version) ==
  IF Len(subs) = 0 THEN <<>>
  ELSE WriteSubAtlas(subs[1], version) \o WriteSubAtlases(Tail(subs), version)

\* AtlasEntry.write_to
Atlas_write_to(e) ==
  Let(  write_int(ATLAS_MAGIC) \o write_int(e.version)
        \o write_int(Len(e.subAtlases))
        \o WriteSubAtlases(e.subAtlases, e.version)
        \o <<IF e.isReference THEN ATLAS_REFERENCE ELSE 0>>
        \o (IF e.isReference
            THEN write_string(e.referencedTextureName[1])
            ELSE XNBAsset_write_to(e.includedTexture[1])), LAMBDA contentsBytes :
      write_int(Len(contentsBytes) - 35) \o contentsBytes)

\* BinkAtlasEntry.read_from: a version below 1 raises.
BinkAtlas_read_from(s) ==
  Let(ReadInts(s, 2), LAMBDA h :
  Let(h.v[1], LAMBDA size :
  Let(h.v[2], LAMBDA version :
  Let(read_string(h.s), LAMBDA n :
  Let(ReadInts(n.s, 2), LAMBDA wh :
  Let(ReadInts(wh.s, 2), LAMBDA os :
  Let(read_single(os.s), LAMBDA sc :
      IF ~h.ok THEN [ok |-> FALSE, v |-> <<>>, s |-> h.s]
      ELSE IF version < 1 THEN [ok |-> FALSE, v |-> <<>>, s |-> h.s]
      ELSE IF ~n.ok THEN [ok |-> FALSE, v |-> <<>>, s |-> n.s]
      ELSE IF ~wh.ok THEN [ok |-> FALSE, v |-> <<>>, s |-> wh.s]
      ELSE IF version > 1 /\ ~os.ok THEN [ok |-> FALSE, v |-> <<>>, s |-> os.s]
      ELSE IF version > 2 /\ ~sc.ok THEN [ok |-> FALSE, v |-> <<>>, s |-> sc.s]
      ELSE [ok |-> TRUE,
            v  |-> [type |-> "binkAtlas", name |-> n.v,
                    manifest_entry |-> <<>>,
                    size |-> size, version |-> version,
                    width |-> wh.v[1], height |-> wh.v[2],
                    originalSize |-> IF version > 1
                                     THEN <<[x |-> os.v[1], y |-> os.v[2]]>>
                                     ELSE <<>>,
                    scaling |-> IF version > 2 THEN <<sc.v>> ELSE <<>>],
            s  |-> IF version > 2 THEN sc.s
                   ELSE IF version > 1 THEN os.s ELSE wh.s])))))))

\* BinkAtlasEntry.write_to
BinkAtlas_write_to(e) ==
  write_int(e.size) \o write_int(e.version) \o write_string(e.name)
  \o write_int(e.width) \o write_int(e.height)
  \o (IF e.version > 1
      THEN write_int(e.originalSize[1].x) \o write_int(e.originalSize[1].y)
           \o (IF e.version > 2 THEN write_single(e.scaling[1]) ELSE <<>>)
      ELSE <<>>)

\* IncludePackageEntry.read_from
Include_read_from(s) ==
  Let(read_string(s), LAMBDA n :
      [ok |-> n.ok,
       v  |-> [type |-> "include", name |-> n.v, manifest_entry |-> <<>>],
       s  |-> n.s])

\* IncludePackageEntry.write_to
Include_write_to(e) == write_string(e.name)

\* SpineEntry.read_from
Spine_read_from(s) ==
  Let(SRead(s, 1), LAMBDA vb :
  Let(read_string(vb.s), LAMBDA n :
  Let(read_big_string(n.s), LAMBDA a :
  Let(read_big_string(a.s), LAMBDA d :
      IF ~vb.ok \/ Len(vb.data) # 1 THEN [ok |-> FALSE, v |-> <<>>, s |-> vb.s]
      ELSE IF ~n.ok THEN [ok |-> FALSE, v |-> <<>>, s |-> n.s]
      ELSE IF ~a.ok THEN [ok |-> FALSE, v |-> <<>>, s |-> a.s]
      ELSE [ok |-> d.ok,
            v  |-> [type |-> "spine", name |-> n.v, manifest_entry |-> <<>>,
                    version |-> vb.data[1],
                    spineAtlas |-> a.v, spineData |-> d.v],
            s  |-> d.s]))))

\* SpineEntry.write_to
Spine_write_to(e) ==
  <<e.version>> \o write_string(e.name)
  \o write_big_string(e.spineAtlas) \o write_big_string(e.spineData)

\* entry.read_from(stream, isManifest, version) by entry class
read_from(type, s, isManifest) ==
  CASE type \in {"texture", "texture3d"} -> XNBAsset_read_from(type, s)
    [] type = "bink"      -> Bink_read_from(s)
    [] type = "atlas"     -> Atlas_read_from(s, isManifest)
    [] type = "binkAtlas" -> BinkAtlas_read_from(s)
    [] type = "include"   -> Include_read_from(s)
    [] type = "spine"     -> Spine_read_from(s)

\* entry.write_to(stream) by entry class: the bytes written
write_to(e) ==
  CASE e.type \in {"texture", "texture3d"} -> XNBAsset_write_to(e)
    [] e.type = "bink"      -> Bink_write_to(e)
    [] e.type = "atlas"     -> Atlas_write_to(e)
    [] e.type = "binkAtlas" -> BinkAtlas_write_to(e)
    [] e.type = "include"   -> Include_write_to(e)
    [] e.type = "spine"     -> Spine_write_to(e)

\* get_entry(b, stream, is_manifest): the class registered for the type
\* byte, constructed on the stream; an unregistered byte (or an empty read)
\* raises KeyError.  The package version is not handed on: every entry is
\* constructed with the default version=7.
get_entry(b, s, is_manifest) ==
  IF Len(b) # 1 \/ EntryTypeOfCode(b[1]) = ""
  THEN [ok |-> FALSE, v |-> <<>>, s |-> s]
  ELSE read_from(EntryTypeOfCode(b[1]), s, is_manifest)

\* EntryBase._export to a .entry file: the type code, then write_to.
EntryBytes(e) == <<EntryTypeCode(e.type)>> \o write_to(e)

\* ------------------------------------------------------------------------
\* sggpio.py: reading entries, seeking, loading
\* ------------------------------------------------------------------------

\* PackageReader._end_of_chunk
EndOfChunk(rd) ==
  Let(rd.vpos[1] + 1, LAMBDA c :
  Let([ResetReadBuf(rd) EXCEPT !.vpos = <<c, 0>>], LAMBDA rd1 :
      IF c >= Len(rd.chunklocs)
      THEN [rd1 EXCEPT !.chunklocs = Append(rd.chunklocs, rd.rawpos)]
      ELSE rd1))

\* PackageReader.read_entry: v is <<>> for None, <<entry>> for an entry.
read_entry(rd) ==
  IF ReaderIsEof(rd) THEN [ok |-> TRUE, v |-> <<>>, s |-> rd]
  ELSE Let(PkgRead(rd, 1), LAMBDA t :
           IF ~t.ok THEN [ok |-> FALSE, v |-> <<>>, s |-> t.s]
           ELSE IF t.data = <<ENTRY_CODE_END_OF_CHUNK>>
                THEN StreamCall(EndOfChunk(t.s), "read_entry", <<>>)
           ELSE IF t.data = <<ENTRY_CODE_END_OF_FILE>>
                THEN [ok |-> TRUE, v |-> <<>>, s |-> t.s]
           ELSE Let(get_entry(t.data, t.s, t.s.is_manifest), LAMBDA e :
                    [ok |-> e.ok, v |-> IF e.ok THEN <<e.v>> ELSE <<>>,
                     s |-> e.s]))

\* stream.read(n), reader.read_entry(), and get_entry(b, stream, is_manifest)
\* with the stream as its argument
StreamCall(s, method, arg) ==
  CASE method = "read"       -> StreamRead(s, arg)
    [] method = "read_entry" -> read_entry(s)
    [] method = "get_entry"  -> get_entry(arg.b, s, arg.is_manifest)

\* reader.read_entry() as its callers reach it
PackageReader_read_entry(rd) == StreamCall(rd, "read_entry", <<>>)

\* get_entry(b, stream, is_manifest) as EntryBase._import reaches it
Stream_get_entry(b, s, is_manifest) ==
  StreamCall(s, "get_entry", [b |-> b, is_manifest |-> is_manifest])

\* seekable() of a PackageReader: the class does not override it, and
\* io.IOBase.seekable returns False.
ReaderSeekable == FALSE

\* PackageIO._skip_chunk: skipped is FALSE when the raw file is at its end.
SkipChunk(rd) ==
  IF FileIsEof(rd.raw, rd.rawpos)
  THEN [ok |-> TRUE, skipped |-> FALSE, rd |-> rd]
  ELSE Let(skip_chunk(rd.proc, rd.raw, rd.rawpos, ChunkSizeAt(rd.rawpos)), LAMBDA k :
       Let(rd.vpos[1] + 1, LAMBDA c :
       Let([rd EXCEPT !.rawpos = k.pos, !.vpos = <<c, rd.vpos[2]>>], LAMBDA rd1 :
           IF ~k.ok THEN [ok |-> FALSE, skipped |-> FALSE,
                          rd |-> [rd EXCEPT !.rawpos = k.pos]]
           ELSE [ok |-> TRUE, skipped |-> TRUE,
                 rd |-> IF c >= Len(rd.chunklocs)
                        THEN [rd1 EXCEPT !.chunklocs =
                                           Append(rd.chunklocs, k.pos)]
                        ELSE rd1])))

\* The while loop of _seek_chunk.  At the end of the raw file _skip_chunk
\* returns False without advancing and the loop never ends: ok is FALSE.
RECURSIVE SkipLoop(_, _)
SkipLoop(rd, n) ==
  IF rd.vpos[1] >= n THEN [ok |-> TRUE, rd |-> rd]
  ELSE Let(SkipChunk(rd), LAMBDA k :
           IF ~k.ok \/ ~k.skipped THEN [ok |-> FALSE, rd |-> k.rd]
           ELSE SkipLoop(k.rd, n))

\* PackageIO._seek_chunk
SeekChunk(rd, n) ==
  IF n < Len(rd.chunklocs)
  THEN [ok |-> TRUE,
        rd |-> [rd EXCEPT !.rawpos = rd.chunklocs[n + 1],
                          !.vpos = <<n, rd.vpos[2]>>]]
  ELSE SkipLoop([rd EXCEPT !.rawpos = rd.chunklocs[Len(rd.chunklocs)],
                           !.vpos = <<Len(rd.chunklocs) - 1, rd.vpos[2]>>],
                n)

\* PackageReader._after_seek
AfterSeek(rd, old_pos, new_pos) ==
  IF old_pos[1] # new_pos[1]
  THEN Let(ResetReadBuf(rd), LAMBDA rd1 :
       Let(new_pos[1], LAMBDA chunknum :
       Let(IF chunknum = 0 THEN new_pos[2] - 4 ELSE new_pos[2], LAMBDA chunkpos :
           IF chunknum = 0 /\ new_pos[2] <= 4 THEN [ok |-> TRUE, rd |-> rd1]
           ELSE IF chunkpos > 0
                THEN Let(ReadChunk(rd1), LAMBDA c :
                         [ok |-> c.ok,
                          rd |-> [c.rd EXCEPT !.read_pos = chunkpos]])
                ELSE [ok |-> TRUE, rd |-> rd1])))
  ELSE [ok |-> TRUE, rd |-> [rd EXCEPT !.read_pos = new_pos[2]]]

\* PackageIO.seek(pos) with whence = os.SEEK_SET on a reader.  On a stream
\* that is not seekable the OSError is returned, not raised: the call ends
\* normally and nothing has moved.
Seek(rd, pos) ==
  IF ~ReaderSeekable THEN [ok |-> TRUE, rd |-> rd]
  ELSE Let(rd.vpos, LAMBDA old_virtual_pos :
       Let(<<pos \div CHUNK_SIZE, pos % CHUNK_SIZE>>, LAMBDA new_virtual_pos :
       Let(       IF new_virtual_pos[1] # rd.vpos[1]
                  THEN SeekChunk(rd, new_virtual_pos[1])
                  ELSE [ok |-> TRUE, rd |-> rd], LAMBDA sc :
       Let([sc.rd EXCEPT !.vpos = <<sc.rd.vpos[1], new_virtual_pos[2]>>], LAMBDA rd1 :
           IF ~sc.ok THEN [ok |-> FALSE, rd |-> sc.rd]
           ELSE AfterSeek(rd1, old_virtual_pos, new_virtual_pos)))))

\* PackageIO.close on a reader (flush, then raw.close)
CloseReader(rd) == [rd EXCEPT !.closed = TRUE]

\* A Python dict: a sequence of <<key, value>> pairs in insertion order.
DictHas(d, k) == \E i \in 1..Len(d) : d[i][1] = k

DictGet(d, k) == d[CHOOSE i \in 1..Len(d) : d[i][1] = k][2]

\* d.setdefault(k, v) : a present key keeps its place and its value
DictSetDefault(d, k, v) ==
  IF DictHas(d, k) THEN d ELSE Append(d, <<k, v>>)

\* d[k] = v : a present key keeps its place
DictSet(d, k, v) ==
  IF DictHas(d, k)
  THEN [i \in 1..Len(d) |-> IF d[i][1] = k THEN <<k, v>> ELSE d[i]]
  ELSE Append(d, <<k, v>>)

\* d.pop(k) : the dict without the key
RECURSIVE DictDel(_, _)
DictDel(d, k) ==
  IF Len(d) = 0 THEN <<>>
  ELSE IF d[1][1] = k THEN Tail(d) ELSE <<d[1]>> \o DictDel(Tail(d), k)

\* d.values()
DictValues(d) == [i \in 1..Len(d) |-> d[i][2]]

\* The for loop of PackageReader.load: entries[entry.name] = entry for
\* every entry __next__ yields.
RECURSIVE LoadLoop(_, _)
LoadLoop(rd, entries) ==
  Let(PackageReader_read_entry(rd), LAMBDA e :
      IF ~e.ok THEN [ok |-> FALSE, entries |-> entries, s |-> e.s]
      ELSE IF e.v = <<>> THEN [ok |-> TRUE, entries |-> entries, s |-> e.s]
      ELSE LoadLoop(e.s, DictSet(entries, e.v[1].name, e.v[1])))

\* PackageReader.load
Load(rd) ==
  Let(Seek(rd, 4), LAMBDA sk :
      IF ~sk.ok THEN [ok |-> FALSE, entries |-> <<>>, s |-> sk.rd]
      ELSE LoadLoop(sk.rd, <<>>))

\* ------------------------------------------------------------------------
\* sggpio.py: PackageWriter
\* ------------------------------------------------------------------------

\* PackageWriter._reset_write_buf: a zero-filled BytesIO sized by the chunk
\* number virtual_pos[0] has when it is called.
ResetWriteBuf(wr) ==
  [wr EXCEPT !.write_buf = Zeros(IF wr.vpos[1] = 0 THEN CHUNK_SIZE - 4
                                 ELSE CHUNK_SIZE),
             !.write_tell = 0]

\* BytesIO.write(b) at position pos: overwrite, growing the value if needed.
BufWrite(buf, pos, b) ==
  SubSeq(buf, 1, pos) \o b \o PyFrom(buf, pos + Len(b))

\* _write_header with the version written one too high (a header that does
\* not carry the writer's version).
WriteHeaderOtherVersion(wr) ==
  Let(GetChunkProcessor(wr.compressor), LAMBDA gp :
      IF Len(wr.raw) # 0 THEN [ok |-> FALSE, w |-> wr]
      ELSE IF ~gp.ok THEN [ok |-> FALSE, w |-> wr]
      ELSE [ok |-> TRUE,
            w  |-> [wr EXCEPT !.proc = gp.proc,
                              !.raw = <<TypeCodeOf(gp.proc), 0, 0, wr.version + 1>>,
                              !.vpos = <<wr.vpos[1], 4>>]])

\* PackageWriter._write_header: an unregistered compressor raises KeyError.
WriteHeader(wr) ==
  Let(GetChunkProcessor(wr.compressor), LAMBDA gp :
      IF Len(wr.raw) # 0 THEN [ok |-> FALSE, w |-> wr]
      ELSE IF ~gp.ok THEN [ok |-> FALSE, w |-> wr]
      ELSE [ok |-> TRUE,
            w  |-> [wr EXCEPT !.proc = gp.proc,
                              !.raw = <<TypeCodeOf(gp.proc), 0, 0, wr.version>>,
                              !.vpos = <<wr.vpos[1], 4>>]])

\* PackageWriter.__init__: the raw file is created empty (mode 'w').
OpenWriter(compressor, version, is_manifest) ==
  WriteHeader(ResetWriteBuf(
    [raw         |-> <<>>,
     closed      |-> FALSE,
     vpos        |-> <<0, 0>>,
     chunklocs   |-> <<4>>,
     compressor  |-> compressor,
     proc        |-> "",
     version     |-> version,
     is_manifest |-> is_manifest,
     write_buf   |-> <<>>,
     write_tell  |-> 0]))

\* The compressor test of a writer that never strips the padding of a chunk
CompressorIsNeverUncompressed(c) == TRUE

\* self.compressor != 'uncompressed' in _write_chunk: a compressor kept as
\* type-code bytes differs from every str.
CompressorIsNotUncompressed(c) ==
  ~(c.form = "name" /\ c.name = "uncompressed")

\* PackageWriter._write_chunk.  On a closed raw file write raises ValueError;
\* a failing processor leaves the sentinel in the buffer that is kept.
WriteChunk(wr, closing) ==
  Let(           IF closing THEN ENTRY_CODE_END_OF_FILE
                 ELSE ENTRY_CODE_END_OF_CHUNK, LAMBDA endbyte :
  Let(BufWrite(wr.write_buf, wr.write_tell, <<endbyte>>), LAMBDA buf :
  Let(wr.write_tell + 1, LAMBDA tell :
  Let(           IF CompressorIsNotUncompressed(wr.compressor) THEN buf
                 ELSE SubSeq(buf, 1, tell), LAMBDA chunk :
  Let(write_chunk(wr.proc, chunk), LAMBDA out :
  Let([wr EXCEPT !.write_buf = buf, !.write_tell = tell], LAMBDA wr1 :
      IF ~out.ok \/ wr.closed THEN [ok |-> FALSE, w |-> wr1]
      ELSE [ok |-> TRUE,
            w  |-> [ResetWriteBuf([wr1 EXCEPT !.raw = wr.raw \o out.data])
                      EXCEPT !.vpos = <<wr.vpos[1] + 1, 0>>]]))))))

\* write(b) of a writer that flushes the current chunk before it rejects
\* more than CHUNK_SIZE bytes
WriteFlushingOversize(wr, b) ==
  IF Len(b) > CHUNK_SIZE THEN [ok |-> FALSE, w |-> WriteChunk(wr, FALSE).w]
  ELSE Let(Len(wr.write_buf) - wr.write_tell - 1, LAMBDA availspace :
       Let(      IF Len(b) > availspace THEN WriteChunk(wr, FALSE)
                 ELSE [ok |-> TRUE, w |-> wr], LAMBDA fl :
           IF ~fl.ok THEN fl
           ELSE [ok |-> TRUE,
                 w  |-> [fl.w EXCEPT
                           !.write_buf = BufWrite(fl.w.write_buf,
                                                  fl.w.write_tell, b),
                           !.write_tell = fl.w.write_tell + Len(b),
                           !.vpos = <<fl.w.vpos[1], fl.w.vpos[2] + Len(b)>>]]))

\* PackageWriter.write(b)
Write(wr, b) ==
  IF Len(b) > CHUNK_SIZE THEN [ok |-> FALSE, w |-> wr]
  ELSE Let(Len(wr.write_buf) - wr.write_tell - 1, LAMBDA availspace :
       Let(      IF Len(b) > availspace THEN WriteChunk(wr, FALSE)
                 ELSE [ok |-> TRUE, w |-> wr], LAMBDA fl :
           IF ~fl.ok THEN fl
           ELSE [ok |-> TRUE,
                 w  |-> [fl.w EXCEPT
                           !.write_buf = BufWrite(fl.w.write_buf,
                                                  fl.w.write_tell, b),
                           !.write_tell = fl.w.write_tell + Len(b),
                           !.vpos = <<fl.w.vpos[1], fl.w.vpos[2] + Len(b)>>]]))

\* entry.typeCode in write_entry: the entry classes carry _typeCode (set by
\* the entry decorator, entries.py lines 21-22) and no attribute typeCode,
\* and None has none either, so the attribute lookup raises AttributeError.
HasTypeCodeAttribute(e) == FALSE

\* PackageWriter.write_entry(entry); entry is <<>> for None, <<e>> otherwise.
write_entry(wr, entry) ==
  IF ~HasTypeCodeAttribute(entry) THEN [ok |-> FALSE, w |-> wr]
  ELSE Write(wr, <<EntryTypeCode(entry[1].type)>> \o write_to(entry[1]))

\* close of a writer that ends its last chunk like every other chunk
CloseWriterEndOfChunk(wr) ==
  Let(WriteChunk(wr, FALSE), LAMBDA f :
      IF ~f.ok THEN [ok |-> FALSE, w |-> f.w]
      ELSE [ok |-> TRUE, w |-> [f.w EXCEPT !.closed = TRUE]])

\* PackageWriter.close: the final chunk, then PackageIO.close.  When the
\* final chunk raises, PackageIO.close is not reached.
CloseWriter(wr) ==
  Let(WriteChunk(wr, TRUE), LAMBDA f :
      IF ~f.ok THEN [ok |-> FALSE, w |-> f.w]
      ELSE [ok |-> TRUE, w |-> [f.w EXCEPT !.closed = TRUE]])

\* ------------------------------------------------------------------------
\* Specification Spec: one package is written, closed and read back
\* ------------------------------------------------------------------------

\* The value of a variable that a specification does not use.
Idle == [kind |-> "idle"]

NoReader == [kind |-> "none"]

\* IncludePackageEntry with the given name
Include(name) == [type |-> "include", name |-> name, manifest_entry |-> <<>>]

\* BinkEntry as read_from leaves it
Bink(name, isAlpha, scaling) ==
  [type |-> "bink", name |-> name, manifest_entry |-> <<>>,
   isAlpha |-> isAlpha, scaling |-> scaling]

\* XNBAssetEntryBase with the given data (size is len(data))
Texture(type, name, data) ==
  [type |-> type, name |-> name, manifest_entry |-> <<>>,
   size |-> Len(data), data |-> data]

\* The entries written in Spec: 4 and 7 bytes long, so that two of them fill
\* the first chunk exactly (4 + 7 + sentinel) or overflow it (7 + 7).
PkgEntries == {Include(<<97, 98>>), Texture("texture", <<97>>, <<>>)}

\* The compressors a writer is given: a registered name, or the type-code
\* bytes that patch hands on from the source reader.
WriterCompressors ==
  {CompressorName(n) : n \in ChunkProcessorNames}
  \cup {CompressorCode(<<0>>), CompressorCode(<<32>>)}

\* The sizes read(size) is called with: one byte, and more than two chunks
\* (from wherever the one-byte reads have arrived, so across the boundaries).
ReadSizes == {1, 2 * CHUNK_SIZE}

\* The positions seek(pos) is called with.
SeekPositions == {5, CHUNK_SIZE + 1}

InitUnusedFiles == fs = Idle /\ handles = Idle /\ sess = Idle /\ res = Idle

InitUnusedCodec == cx = Idle

InitUnusedPkg ==
  /\ writer = Idle /\ wstate = "idle" /\ wres = Idle /\ wlog = <<>>
  /\ reader = NoReader /\ rres = Idle /\ yielded = <<>>

\* PackageWriter(name, compressor=c, version=v)
Init ==
  /\ \E c \in WriterCompressors, v \in PACKAGE_VERSIONS :
       /\ writer = OpenWriter(c, v, FALSE).w
       /\ wres = [op |-> "open", ok |-> OpenWriter(c, v, FALSE).ok]
  /\ wstate = "open"
  /\ wlog = <<>>
  /\ reader = NoReader
  /\ rres = Idle
  /\ yielded = <<>>
  /\ InitUnusedCodec
  /\ InitUnusedFiles

\* writer.write_entry(e)
WriteEntry(e) ==
  /\ wstate = "open"
  /\ Let(write_entry(writer, <<e>>), LAMBDA r :
         /\ writer' = r.w
         /\ wres' = [op |-> "write_entry", ok |-> r.ok]
         /\ wlog' = IF r.ok THEN Append(wlog, e) ELSE wlog)
  /\ UNCHANGED <<wstate, reader, rres, yielded, cx, fileVars>>

\* writer.write(b) with the bytes of entry e: its type code, then write_to
WriteBytes(e) ==
  /\ wstate = "open"
  /\ Len(wlog) < MaxWrites
  /\ Let(Write(writer, EntryBytes(e)), LAMBDA r :
         /\ writer' = r.w
         /\ wres' = [op |-> "write", ok |-> r.ok]
         /\ wlog' = IF r.ok THEN Append(wlog, e) ELSE wlog
         \* the caller gives up a writer whose flush raised
         /\ wstate' = IF r.ok THEN "open" ELSE "write_failed")
  /\ UNCHANGED <<reader, rres, yielded, cx, fileVars>>

\* writer.write(b) with more than CHUNK_SIZE bytes
WriteOversize ==
  /\ wstate = "open"
  /\ Let(Write(writer, Zeros(CHUNK_SIZE + 1)), LAMBDA r :
         /\ writer' = r.w
         /\ wres' = [op |-> "write_oversize", ok |-> r.ok])
  /\ UNCHANGED <<wstate, wlog, reader, rres, yielded, cx, fileVars>>

\* writer.close()
Close ==
  /\ wstate = "open"
  /\ Let(CloseWriter(writer), LAMBDA r :
         /\ writer' = r.w
         /\ wres' = [op |-> "close", ok |-> r.ok]
         /\ wstate' = IF r.ok THEN "closed" ELSE "close_failed")
  /\ UNCHANGED <<wlog, reader, rres, yielded, cx, fileVars>>

\* PackageReader(name) on the closed file
Open ==
  /\ wstate = "closed"
  /\ reader = NoReader
  /\ Let(OpenReader(writer.raw, FALSE), LAMBDA r :
         /\ reader' = r.rd
         /\ rres' = [op |-> "open", ok |-> r.ok])
  /\ UNCHANGED <<writer, wstate, wres, wlog, yielded, cx, fileVars>>

\* reader.read_entry().  A reader is used entry by entry or byte by byte:
\* read_entry is called from the open on, read and seek on a reader that no
\* entry was read from.
ReadEntry ==
  /\ reader # NoReader
  /\ rres.op \in {"open", "read_entry"}
  /\ Len(yielded) < MaxYielded
  /\ Let(PackageReader_read_entry(reader), LAMBDA r :
         /\ reader' = r.s
         /\ rres' = [op |-> "read_entry", ok |-> r.ok, v |-> r.v,
                     \* an earlier call has returned None or raised
                     past |-> rres.op = "read_entry" /\ (rres.past \/ rres.v = <<>>),
                     \* the call returned None on reading the end-of-file
                     \* sentinel, the last byte it took from the buffer
                     sentinel |-> /\ r.ok /\ r.v = <<>>
                                  /\ r.s # reader
                                  /\ r.s.read_pos > 0
                                  /\ r.s.read_pos <= Len(r.s.read_buf)
                                  /\ r.s.read_buf[r.s.read_pos] = ENTRY_CODE_END_OF_FILE,
                     \* an earlier call has done so
                     after_eof |-> rres.op = "read_entry"
                                     /\ (rres.after_eof \/ rres.sentinel)]
         /\ yielded' = yielded \o r.v)
  /\ UNCHANGED <<writer, wstate, wres, wlog, cx, fileVars>>

\* reader.read(size)
Read(size) ==
  /\ reader # NoReader
  /\ rres.op # "read_entry"
  /\ Let(PkgRead(reader, size), LAMBDA r :
         /\ reader' = r.s
         /\ rres' = [op |-> "read", ok |-> r.ok, size |-> size,
                    data |-> r.data,
                    seeked |-> IF rres.op = "seek" THEN rres.pos ELSE -1])
  /\ UNCHANGED <<writer, wstate, wres, wlog, yielded, cx, fileVars>>

\* reader.seek(pos)
SeekTo(pos) ==
  /\ reader # NoReader
  /\ rres.op # "read_entry"
  /\ Let(Seek(reader, pos), LAMBDA r :
         /\ reader' = r.rd
         /\ rres' = [op |-> "seek", ok |-> r.ok, pos |-> pos])
  /\ UNCHANGED <<writer, wstate, wres, wlog, yielded, cx, fileVars>>

Next ==
  \/ \E e \in PkgEntries : WriteEntry(e)
  \/ \E e \in PkgEntries : WriteBytes(e)
  \/ WriteOversize
  \/ Close
  \/ Open
  \/ ReadEntry
  \/ \E n \in ReadSizes : Read(n)
  \/ \E p \in SeekPositions : SeekTo(p)

Spec == Init /\ [][Next]_vars

\* ------------------------------------------------------------------------
\* Specification SpecCodec: one entry is serialized and parsed back
\* ------------------------------------------------------------------------

\* One sub-atlas record
SubAtlas(name, isMulti, isMip, isAlpha8, hull) ==
  [name |-> name,
   rect |-> [x |-> 1, y |-> 2, width |-> 3, height |-> 4],
   topLeft |-> [x |-> 0, y |-> -2],
   originalSize |-> [x |-> 3, y |-> 4],
   scaleRatio |-> [x |-> SINGLE_ONE, y |-> Single(0, 126, 0)],
   isMulti |-> isMulti, isMip |-> isMip, isAlpha8 |-> isAlpha8,
   hull |-> hull]

\* AtlasEntry of the given version: a reference to a texture by name, or
\* with the texture included
Atlas(version, subs, isReference) ==
  [type |-> "atlas", name |-> <<116>>, manifest_entry |-> <<>>,
   version |-> version, subAtlases |-> subs,
   isReference |-> isReference,
   referencedTextureName |-> IF isReference THEN <<<<116>>>> ELSE <<>>,
   includedTexture |-> IF isReference THEN <<>>
                       ELSE <<Texture("texture", <<116>>, <<9>>)>>]

\* BinkAtlasEntry of the given version, with the fields that version has
BinkAtlas(version, width) ==
  [type |-> "binkAtlas", name |-> <<98>>, manifest_entry |-> <<>>,
   size |-> 20, version |-> version, width |-> width, height |-> 2,
   originalSize |-> IF version > 1 THEN <<[x |-> 4, y |-> 5]>> ELSE <<>>,
   scaling |-> IF version > 2 THEN <<SINGLE_ONE>> ELSE <<>>]

\* SpineEntry
Spine(version, spineAtlas, spineData) ==
  [type |-> "spine", name |-> <<115>>, manifest_entry |-> <<>>,
   version |-> version, spineAtlas |-> spineAtlas, spineData |-> spineData]

\* The versions of the atlas format and of the bink atlas format
AtlasVersions == 0 .. 4

BinkAtlasVersions == 0 .. 3

\* The sub-atlas lists of an atlas of the given version: a flag only where
\* the format of that version has a flag byte, a hull only where it has one.
SubAtlasLists(version) ==
  LET hull == IF version > 2 THEN <<[x |-> 1, y |-> 1]>> ELSE <<>>
  IN  {<<>>, <<SubAtlas(<<97>>, FALSE, FALSE, FALSE, hull)>>}
      \cup (IF version > 0
            THEN {<<SubAtlas(<<97>>, TRUE, FALSE, FALSE, hull)>>,
                  <<SubAtlas(<<97>>, FALSE, TRUE, TRUE, hull),
                    SubAtlas(<<98>>, FALSE, FALSE, FALSE, <<>>)>>}
            ELSE {})

\* The entries serialized in SpecCodec.  Strings are sequences of code
\* points; 233 is a character whose UTF-8 encoding has two bytes.
CodecEntries ==
  {Texture(t, n, d) : t \in {"texture", "texture3d"},
                      n \in {<<>>, <<97>>}, d \in {<<>>, <<1, 2>>}}
  \cup {Bink(<<98>>, a, sc) : a \in BOOLEAN,
                             sc \in {SINGLE_ONE, Single(0, 128, 0)}}
  \cup UNION {{Atlas(v, subs, r) : subs \in SubAtlasLists(v), r \in BOOLEAN}
              : v \in AtlasVersions}
  \cup {BinkAtlas(v, w) : v \in BinkAtlasVersions, w \in {1, 300}}
  \cup {Include(n) : n \in {<<>>, <<97>>, <<97, 98, 99>>}}
  \cup {Spine(1, a, d) : a \in {<<97, 98>>, <<97, 233>>},
                         d \in {<<>>, <<123>>}}

InitCodec ==
  /\ \E e \in CodecEntries : cx = [phase |-> "new", entry |-> e]
  /\ InitUnusedPkg
  /\ InitUnusedFiles

\* stream.write(entry._typeCode); entry.write_to(stream)
Encode ==
  /\ cx.phase = "new"
  /\ cx' = [phase |-> "written", entry |-> cx.entry,
            bytes |-> EntryBytes(cx.entry)]
  /\ UNCHANGED <<pkgVars, fileVars>>

\* get_entry(stream.read(1), stream, is_manifest) on the bytes written
Decode(is_manifest) ==
  /\ cx.phase = "written"
  /\ LET r == Stream_get_entry(SubSeq(cx.bytes, 1, 1),
                        [BytesIO(cx.bytes) EXCEPT !.pos = 1], is_manifest)
     IN  cx' = [phase |-> "read", entry |-> cx.entry, bytes |-> cx.bytes,
                is_manifest |-> is_manifest,
                ok |-> r.ok,
                decoded |-> IF r.ok THEN <<r.v>> ELSE <<>>,
                left |-> Len(cx.bytes) - r.s.pos]
  /\ UNCHANGED <<pkgVars, fileVars>>

NextCodec ==
  \/ Encode
  \/ \E m \in BOOLEAN : Decode(m)

SpecCodec == InitCodec /\ [][NextCodec]_vars

\* ------------------------------------------------------------------------
\* The directory: os.replace, os.remove, and the raw files opened
\* ------------------------------------------------------------------------

\* The paths of the directory: a package N with its manifest, the names
\* patch moves them to, a patch package P, a package W being written.
Names == {"N", "P", "W"}

Paths ==
  UNION {{n, n \o "_manifest", n \o ".old", n \o ".old_manifest"} : n \in Names}

\* A world is the directory fs (path -> <<>> for no file, <<bytes>> for a
\* file) and handles, the raw files opened so far, each open or closed.
FsExists(w, path) == w.fs[path] # <<>>

FsPut(w, path, bytes) == [w EXCEPT !.fs[path] = <<bytes>>]

\* os.replace(a, b): FileNotFoundError when a does not exist
os_replace(w, a, b) ==
  IF ~FsExists(w, a) THEN [ok |-> FALSE, w |-> w]
  ELSE [ok |-> TRUE, w |-> [w EXCEPT !.fs[b] = w.fs[a], !.fs[a] = <<>>]]

\* os.remove(a): FileNotFoundError when a does not exist
os_remove(w, a) ==
  IF ~FsExists(w, a) THEN [ok |-> FALSE, w |-> w]
  ELSE [ok |-> TRUE, w |-> [w EXCEPT !.fs[a] = <<>>]]

\* _FileIO(name, mode) in PackageIO.__init__: the new handle is the last
HandleOpen(w, path) ==
  [w EXCEPT !.handles = Append(w.handles, [path |-> path, open |-> TRUE])]

\* raw.close() of handle h
HandleClose(w, h) == [w EXCEPT !.handles[h].open = FALSE]

\* ------------------------------------------------------------------------
\* sggpio.py: load_package, PackageWithManifestReader
\* ------------------------------------------------------------------------

\* PackageReader.load_package(name, is_manifest): the with statement closes
\* the reader when load returns and when it raises; a constructor that
\* raises leaves the raw file it opened to the garbage collector.
load_package(w, name, is_manifest) ==
  IF ~FsExists(w, name) THEN [ok |-> FALSE, w |-> w, entries |-> <<>>]
  ELSE Let(HandleOpen(w, name), LAMBDA w1 :
       Let(OpenReader(w.fs[name][1], is_manifest), LAMBDA o :
           IF ~o.ok THEN [ok |-> FALSE, w |-> w1, entries |-> <<>>]
           ELSE Let(Load(o.rd), LAMBDA l :
                    [ok |-> l.ok,
                     w |-> HandleClose(w1, Len(w1.handles)),
                     entries |-> l.entries])))

\* PackageWithManifestReader.__init__: manifest is <<>> for None, <<dict>>
\* for the loaded manifest; h is the handle of the primary raw file.
OpenManifestReader(w, name) ==
  IF ~FsExists(w, name) THEN [ok |-> FALSE, w |-> w, r |-> NoReader]
  ELSE
    Let(HandleOpen(w, name), LAMBDA w1 :
    Let(OpenReader(w.fs[name][1], FALSE), LAMBDA o :
    Let(load_package(w1, name \o "_manifest", TRUE), LAMBDA m :
    Let([kind |-> "manifest_reader", rd |-> o.rd, h |-> Len(w1.handles),
         manifest |-> <<>>], LAMBDA r :
        IF ~o.ok THEN [ok |-> FALSE, w |-> w1, r |-> r]
        ELSE IF ~FsExists(w1, name \o "_manifest")
             THEN [ok |-> TRUE, w |-> w1, r |-> r]
        ELSE IF ~m.ok THEN [ok |-> FALSE, w |-> m.w, r |-> r]
        ELSE [ok |-> TRUE, w |-> m.w,
              r |-> [r EXCEPT !.manifest = <<m.entries>>]]))))

\* PackageWithManifestReader.read_entry
ManifestReader_read_entry(r) ==
  Let(PackageReader_read_entry(r.rd), LAMBDA e :
  Let([r EXCEPT !.rd = e.s], LAMBDA r1 :
      IF ~e.ok THEN [ok |-> FALSE, v |-> <<>>, r |-> r1]
      ELSE IF e.v = <<>> THEN [ok |-> TRUE, v |-> <<>>, r |-> r1]
      ELSE IF r.manifest # <<>> /\ DictHas(r.manifest[1], e.v[1].name)
           THEN [ok |-> TRUE,
                 v  |-> <<[e.v[1] EXCEPT !.manifest_entry =
                             <<DictGet(r.manifest[1], e.v[1].name)>>]>>,
                 r  |-> r1]
      ELSE [ok |-> TRUE, v |-> e.v, r |-> r1]))

\* reader.close() / the reader's __exit__
CloseManifestReader(w, r) ==
  [w |-> HandleClose(w, r.h), r |-> [r EXCEPT !.rd = CloseReader(r.rd)]]

\* ------------------------------------------------------------------------
\* sggpio.py: PackageWithManifestWriter
\* ------------------------------------------------------------------------

\* The files of the two writers are what the writers have written to raw.
SyncManifestWriter(w, t) ==
  FsPut(FsPut(w, t.name, t.pw.raw), t.name \o "_manifest", t.mw.raw)

\* PackageWithManifestWriter.__init__: mode 'w' creates or truncates each
\* file; the manifest writer is always 'uncompressed'.  ph and mh are the
\* handles of the two raw files.
OpenManifestWriter(w, name, compressor, version) ==
  Let(HandleOpen(FsPut(w, name, <<>>), name), LAMBDA w1 :
  Let(OpenWriter(compressor, version, FALSE), LAMBDA o1 :
  Let(HandleOpen(FsPut(FsPut(w1, name, o1.w.raw), name \o "_manifest", <<>>),
                 name \o "_manifest"), LAMBDA w2 :
  Let(OpenWriter(CompressorName("uncompressed"), version, TRUE), LAMBDA o2 :
  Let([kind |-> "manifest_writer", name |-> name,
       pw |-> o1.w, ph |-> Len(w1.handles),
       mw |-> o2.w, mh |-> Len(w2.handles)], LAMBDA t :
      IF ~o1.ok THEN [ok |-> FALSE, w |-> w1, t |-> t]
      ELSE IF ~o2.ok THEN [ok |-> FALSE, w |-> w2, t |-> t]
      ELSE [ok |-> TRUE, w |-> SyncManifestWriter(w2, t), t |-> t])))))

\* hasattr(entry, 'manifest_entry'): EntryBase.__init__ sets the attribute
\* (to None) on every entry.
HasManifestEntryAttribute(entry) == TRUE

\* PackageWithManifestWriter.write_entry_with_manifest(entry)
write_entry_with_manifest(t, entry) ==
  Let(write_entry(t.pw, <<entry>>), LAMBDA p :
  Let(write_entry(t.mw, entry.manifest_entry), LAMBDA m :
      IF ~p.ok THEN [ok |-> FALSE, t |-> [t EXCEPT !.pw = p.w]]
      ELSE IF ~HasManifestEntryAttribute(entry)
           THEN [ok |-> TRUE, t |-> [t EXCEPT !.pw = p.w]]
      ELSE [ok |-> m.ok, t |-> [t EXCEPT !.pw = p.w, !.mw = m.w]]))

\* PackageWithManifestWriter.close: PackageWriter.close of the primary, then
\* manifest.close(); when the first raises the second is not reached.
CloseManifestWriter(w, t) ==
  Let(CloseWriter(t.pw), LAMBDA p :
  Let(CloseWriter(t.mw), LAMBDA m :
  Let([t EXCEPT !.pw = p.w], LAMBDA t1 :
  Let([t EXCEPT !.pw = p.w, !.mw = m.w], LAMBDA t2 :
      IF ~p.ok THEN [ok |-> FALSE, w |-> SyncManifestWriter(w, t1), t |-> t1]
      ELSE IF ~m.ok
           THEN [ok |-> FALSE,
                 w  |-> HandleClose(SyncManifestWriter(w, t2), t.ph),
                 t  |-> t2]
      ELSE [ok |-> TRUE,
            w  |-> HandleClose(HandleClose(SyncManifestWriter(w, t2), t.ph),
                               t.mh),
            t  |-> t2]))))

\* ------------------------------------------------------------------------
\* sggpio.py: patch
\* ------------------------------------------------------------------------

\* for entry in PackageWithManifestReader(patch): patch_entries[entry.name]
\* = entry
RECURSIVE PatchEntriesOf(_, _)
PatchEntriesOf(r, d) ==
  Let(ManifestReader_read_entry(r), LAMBDA e :
      IF ~e.ok THEN [ok |-> FALSE, d |-> d]
      ELSE IF e.v = <<>> THEN [ok |-> TRUE, d |-> d]
      ELSE PatchEntriesOf(e.r, DictSet(d, e.v[1].name, e.v[1])))

\* The loop over the patches.  The reader of a patch is not closed.
RECURSIVE CollectPatches(_, _, _)
CollectPatches(w, patches, d) ==
  IF patches = <<>> THEN [ok |-> TRUE, w |-> w, d |-> d]
  ELSE Let(OpenManifestReader(w, Head(patches)), LAMBDA o :
           IF ~o.ok THEN [ok |-> FALSE, w |-> o.w, d |-> d]
           ELSE Let(PatchEntriesOf(o.r, d), LAMBDA it :
                    IF ~it.ok THEN [ok |-> FALSE, w |-> o.w, d |-> it.d]
                    ELSE CollectPatches(o.w, Tail(patches), it.d)))

\* for entry in source: write the patch entry of that name, popped from
\* patch_entries, or else the entry itself
RECURSIVE PatchLoop(_, _, _)
PatchLoop(r, t, d) ==
  Let(ManifestReader_read_entry(r), LAMBDA e :
      IF ~e.ok THEN [ok |-> FALSE, r |-> e.r, t |-> t, d |-> d]
      ELSE IF e.v = <<>> THEN [ok |-> TRUE, r |-> e.r, t |-> t, d |-> d]
      ELSE Let(DictHas(d, e.v[1].name), LAMBDA patched :
           Let(write_entry_with_manifest(t,
                 IF patched THEN DictGet(d, e.v[1].name) ELSE e.v[1]), LAMBDA x :
           Let(IF patched THEN DictDel(d, e.v[1].name) ELSE d, LAMBDA d1 :
               IF ~x.ok THEN [ok |-> FALSE, r |-> e.r, t |-> x.t, d |-> d1]
               ELSE PatchLoop(e.r, x.t, d1)))))

\* for entry in patch_entries.values(): write it
RECURSIVE AppendLoop(_, _)
AppendLoop(t, entries) ==
  IF entries = <<>> THEN [ok |-> TRUE, t |-> t]
  ELSE Let(write_entry_with_manifest(t, Head(entries)), LAMBDA x :
           IF ~x.ok THEN [ok |-> FALSE, t |-> x.t]
           ELSE AppendLoop(x.t, Tail(entries)))

\* The with statement of patch once source and target are open: the body,
\* then target.__exit__ and source.__exit__ whether or not the body raised,
\* then the two os.remove calls when nothing raised.
PatchWith(w, name, src, tgt, d) ==
  Let(PatchLoop(src, tgt, d), LAMBDA lp :
  Let(IF lp.ok THEN AppendLoop(lp.t, DictValues(lp.d))
      ELSE [ok |-> FALSE, t |-> lp.t], LAMBDA ap :
  Let(CloseManifestWriter(w, ap.t), LAMBDA tc :
  Let(CloseManifestReader(tc.w, lp.r).w, LAMBDA w1 :
  Let(os_remove(w1, name \o ".old"), LAMBDA rm1 :
  Let(os_remove(rm1.w, name \o ".old_manifest"), LAMBDA rm2 :
      IF ~ap.ok \/ ~tc.ok THEN [ok |-> FALSE, w |-> w1]
      ELSE IF ~rm1.ok THEN [ok |-> FALSE, w |-> w1]
      ELSE [ok |-> rm2.ok, w |-> rm2.w]))))))

\* patch(name, *patches)
Patch(w, name, patches) ==
  Let(os_replace(w, name, name \o ".old"), LAMBDA r1 :
  Let(os_replace(r1.w, name \o "_manifest", name \o ".old_manifest"), LAMBDA r2 :
  Let(CollectPatches(r2.w, patches, <<>>), LAMBDA cp :
  Let(OpenManifestReader(cp.w, name \o ".old"), LAMBDA src :
  Let(OpenManifestWriter(src.w, name, src.r.rd.compressor, src.r.rd.version), LAMBDA tgt :
      IF ~r1.ok THEN [ok |-> FALSE, w |-> w]
      ELSE IF ~r2.ok THEN [ok |-> FALSE, w |-> r1.w]
      ELSE IF ~cp.ok THEN [ok |-> FALSE, w |-> cp.w]
      ELSE IF ~src.ok THEN [ok |-> FALSE, w |-> src.w]
      ELSE IF ~tgt.ok
           THEN [ok |-> FALSE, w |-> CloseManifestReader(tgt.w, src.r).w]
      ELSE PatchWith(tgt.w, name, src.r, tgt.t, cp.d))))))

\* ------------------------------------------------------------------------
\* Specification SpecFiles: packages with manifests in a directory
\* ------------------------------------------------------------------------

\* The bytes of the entries handed to write() one by one
RECURSIVE WriteAll(_, _)
WriteAll(wr, entries) ==
  IF entries = <<>> THEN wr
  ELSE WriteAll(Write(wr, EntryBytes(Head(entries))).w, Tail(entries))

\* The file of a package holding the given entries: the header, the entries'
\* bytes, the end-of-file sentinel.
PackageFile(compressor, version, entries, is_manifest) ==
  CloseWriter(WriteAll(OpenWriter(compressor, version, is_manifest).w,
                       entries)).w.raw

\* How many raw files may be left open before no further file is opened.
MaxHandles == 3

NoSession == [kind |-> "none"]

EntryA == Include(<<97>>)

EntryB == Include(<<98>>)

\* An entry named like EntryB that is not EntryB
EntryB2 == Texture("texture", <<98>>, <<>>)

\* Two manifest entries named like EntryA
CompanionA == Include(<<97>>)

CompanionA2 == Texture("texture", <<97>>, <<>>)

\* The packages found in the directory at the start, each within one chunk
SourceEntryLists == {<<>>, <<EntryA>>, <<EntryA, EntryB>>, <<EntryB, EntryB>>}

ManifestEntryLists ==
  {<<>>, <<CompanionA>>, <<CompanionA, CompanionA2>>, <<CompanionA2, EntryB>>}

PatchEntryLists == {<<>>, <<EntryB2>>}

SourceFiles ==
  {PackageFile(CompressorName(c), PACKAGE_VERSION_HADES, es, FALSE) :
     c \in {"uncompressed", "lz4"}, es \in SourceEntryLists}

ManifestFiles ==
  {PackageFile(CompressorName("uncompressed"), PACKAGE_VERSION_HADES, es, TRUE) :
     es \in ManifestEntryLists}

PatchFiles ==
  {PackageFile(CompressorName("uncompressed"), PACKAGE_VERSION_HADES, es, FALSE) :
     es \in PatchEntryLists}

World == [fs |-> fs, handles |-> handles]

\* Every entry of the package at name with the companion attached to it, as
\* a PackageWithManifestReader yields them (an observation: no handle of
\* the directory is touched).
RECURSIVE ListLoop(_, _)
ListLoop(r, acc) ==
  Let(ManifestReader_read_entry(r), LAMBDA e :
      IF ~e.ok THEN [ok |-> FALSE, entries |-> acc]
      ELSE IF e.v = <<>> THEN [ok |-> TRUE, entries |-> acc]
      ELSE ListLoop(e.r, acc \o e.v))

ListEntries(w, name) ==
  Let(OpenManifestReader(w, name), LAMBDA o :
      IF ~o.ok THEN [ok |-> FALSE, entries |-> <<>>]
      ELSE ListLoop(o.r, <<>>))

\* The handles still open
OpenHandles(w) == SelectSeq(w.handles, LAMBDA h : h.open)

InitFiles ==
  /\ \E n \in SourceFiles,
        m \in {<<>>} \cup {<<f>> : f \in ManifestFiles},
        p \in {<<>>} \cup {<<f>> : f \in PatchFiles} :
       fs = [path \in Paths |->
               CASE path = "N" -> <<n>>
                 [] path = "N_manifest" -> m
                 [] path = "P" -> p
                 [] OTHER -> <<>>]
  /\ handles = <<>>
  /\ sess = NoSession
  /\ res = [op |-> "init"]
  /\ InitUnusedPkg
  /\ InitUnusedCodec

\* patch("N", *patches).  patch returns nothing, so a reader it opened and
\* did not close is unreferenced once it returns: its finalizer closes the
\* raw file when the runtime collects it, at once under reference counting
\* and at some later time under a tracing collector.  collected chooses
\* between the two; left counts the raw files still open on return.
DoPatch(patches, collected) ==
  /\ sess = NoSession
  /\ Len(handles) < MaxHandles
  /\ LET r == Patch(World, "N", patches)
     IN  /\ fs' = r.w.fs
         /\ handles' = IF collected THEN handles ELSE OpenHandles(r.w)
         /\ res' = [op |-> "patch", ok |-> r.ok, patches |-> patches,
                    manifest |-> FsExists(World, "N_manifest"),
                    before |-> ListEntries(World, "N"),
                    patch |-> IF patches = <<>> THEN [ok |-> TRUE, entries |-> <<>>]
                              ELSE ListEntries(World, patches[1]),
                    after |-> ListEntries(r.w, "N"),
                    left |-> Len(OpenHandles(r.w)) - Len(handles)]
  /\ UNCHANGED <<sess, pkgVars, cx>>

\* PackageWithManifestWriter("W", compressor=c, version=v)
OpenWM(c, v) ==
  /\ sess = NoSession
  /\ Len(handles) < MaxHandles
  /\ LET o == OpenManifestWriter(World, "W", c, v)
     IN  /\ fs' = o.w.fs
         /\ handles' = o.w.handles
         /\ sess' = IF o.ok THEN o.t ELSE NoSession
         /\ res' = [op |-> "open_writer", ok |-> o.ok]
  /\ UNCHANGED <<pkgVars, cx>>

\* writer.write_entry_with_manifest(e)
WriteWM(e) ==
  /\ sess.kind = "manifest_writer"
  /\ LET x == write_entry_with_manifest(sess, e)
     IN  /\ sess' = x.t
         /\ fs' = SyncManifestWriter(World, x.t).fs
         /\ res' = [op |-> "write_entry_with_manifest", ok |-> x.ok,
                    entry |-> e, before |-> sess]
  /\ UNCHANGED <<handles, pkgVars, cx>>

\* writer.close(); the writer is not used again
CloseWM ==
  /\ sess.kind = "manifest_writer"
  /\ LET c == CloseManifestWriter(World, sess)
     IN  /\ fs' = c.w.fs
         /\ handles' = OpenHandles(c.w)
         /\ res' = [op |-> "close_writer", ok |-> c.ok,
                    primary_closed |-> ~c.w.handles[sess.ph].open,
                    manifest_closed |-> ~c.w.handles[sess.mh].open]
  /\ sess' = NoSession
  /\ UNCHANGED <<pkgVars, cx>>

\* PackageWithManifestReader(name)
OpenRM(name) ==
  /\ sess = NoSession
  /\ Len(handles) < MaxHandles
  /\ LET o == OpenManifestReader(World, name)
     IN  /\ handles' = o.w.handles
         /\ sess' = IF o.ok THEN [o.r EXCEPT !.kind = "manifest_reader"]
                    ELSE NoSession
         /\ res' = [op |-> "open_reader", ok |-> o.ok, name |-> name]
  /\ UNCHANGED <<fs, pkgVars, cx>>

\* reader.read_entry()
ReadRM ==
  /\ sess.kind = "manifest_reader"
  /\ LET e == ManifestReader_read_entry(sess)
     IN  /\ sess' = e.r
         /\ res' = [op |-> "read_entry", ok |-> e.ok, v |-> e.v,
                    name |-> res.name]
  /\ UNCHANGED <<fs, handles, pkgVars, cx>>

\* reader.close(); the reader is not used again
CloseRM ==
  /\ sess.kind = "manifest_reader"
  /\ handles' = OpenHandles(CloseManifestReader(World, sess).w)
  /\ sess' = NoSession
  /\ res' = [op |-> "close_reader", ok |-> TRUE]
  /\ UNCHANGED <<fs, pkgVars, cx>>

NextFiles ==
  \/ \E ps \in {<<>>, <<"P">>}, collected \in BOOLEAN : DoPatch(ps, collected)
  \/ \E c \in {CompressorName("uncompressed"), CompressorName("lzx")},
        v \in PACKAGE_VERSIONS : OpenWM(c, v)
  \/ \E e \in {EntryA, [EntryB EXCEPT !.manifest_entry = <<CompanionA>>]} :
       WriteWM(e)
  \/ CloseWM
  \/ \E n \in {"N", "P"} : OpenRM(n)
  \/ ReadRM
  \/ CloseRM

SpecFiles == InitFiles /\ [][NextFiles]_vars

\* ------------------------------------------------------------------------
\* Specification SpecReader: a package file is opened and read
\* ------------------------------------------------------------------------

\* The bytes a reader is allowed to have consumed before it stops reading.
MaxConsumed == 6

\* The version bytes found in the headers of the files opened.
HeaderVersions == {0, 5, 6, 7}

\* version=7, the default of the version parameter of EntryBase.__init__
DefaultEntryVersion == 7

\* The files opened: what a writer of each codec and header version leaves
\* for zero, one and two entries, and a file whose codec byte is not
\* registered.
ReaderFiles ==
  {PackageFile(CompressorName(c), v, es, FALSE) :
     c \in {"uncompressed", "lz4"}, v \in HeaderVersions,
     es \in {<<>>, <<EntryA>>, <<EntryA, EntryB>>}}
  \cup {<<1, 0, 0, 7, 255>>}

\* The chunks of the raw file from the reader's position on, as _read_chunk
\* returns them one after the other, joined
RECURSIVE ChunksFrom(_)
ChunksFrom(rd) ==
  Let(ReadChunk(rd), LAMBDA c :
      IF ~c.ok \/ c.none THEN <<>>
      ELSE c.rd.read_buf \o ChunksFrom(c.rd))

\* The decompressed stream of a package file: its chunks behind the header
DecompressedStream(raw) == ChunksFrom(OpenReader(raw, FALSE).rd)

\* The arguments the entry class is called with by get_entry when
\* read_entry of reader rd reaches it: get_entry(b, stream, is_manifest)
\* hands on the stream and isManifest, and version is left at its default.
EntryInitArgs(rd) ==
  [isManifest |-> rd.is_manifest, version |-> DefaultEntryVersion]

\* PackageReader(name, is_manifest=m) on one of the files
InitReader ==
  /\ \E raw \in ReaderFiles, m \in BOOLEAN :
       Let(OpenReader(raw, m), LAMBDA o :
           /\ reader = IF o.ok THEN o.rd ELSE NoReader
           /\ rres = [op |-> "open", ok |-> o.ok, raw |-> raw, consumed |-> 0])
  /\ yielded = <<>>
  /\ writer = Idle /\ wstate = "idle" /\ wres = Idle /\ wlog = <<>>
  /\ InitUnusedCodec
  /\ InitUnusedFiles

\* reader.read(size) on a reader that no entry was read from; consumed is
\* the number of bytes the reads have returned since the open, and short
\* tells that a read has returned fewer bytes than it was asked for
\* (was_short: one before this read).
ReadSome(size) ==
  /\ reader # NoReader
  /\ rres.op \in {"open", "read"}
  /\ rres.consumed < MaxConsumed
  /\ Let(PkgRead(reader, size), LAMBDA r :
     Let(rres.op = "read" /\ rres.short, LAMBDA was_short :
         /\ reader' = r.s
         /\ rres' = [op |-> "read", ok |-> r.ok, raw |-> rres.raw,
                     consumed |-> rres.consumed + Len(r.data),
                     size |-> size, data |-> r.data,
                     was_short |-> was_short,
                     short |-> was_short \/ Len(r.data) < size]))
  /\ UNCHANGED <<writer, wstate, wres, wlog, yielded, cx, fileVars>>

\* reader.read_entry() on a reader that was only read entry by entry
NextEntry ==
  /\ reader # NoReader
  /\ rres.op = "open" \/ (rres.op = "read_entry" /\ rres.ok /\ rres.v # <<>>)
  /\ Let(PackageReader_read_entry(reader), LAMBDA r :
         /\ reader' = r.s
         /\ rres' = [op |-> "read_entry", ok |-> r.ok, raw |-> rres.raw,
                     v |-> r.v, args |-> EntryInitArgs(reader)]
         /\ yielded' = yielded \o r.v)
  /\ UNCHANGED <<writer, wstate, wres, wlog, cx, fileVars>>

NextReader ==
  \/ \E n \in {1, 2, CHUNK_SIZE} : ReadSome(n)
  \/ NextEntry

SpecReader == InitReader /\ [][NextReader]_vars

\* ------------------------------------------------------------------------
\* Specification SpecWriter: blocks of up to CHUNK_SIZE bytes are written
\* ------------------------------------------------------------------------

\* How many blocks a writer is given.
MaxBlocks == 3

\* The lengths of the blocks written: one byte, what fills the buffer of
\* chunk 0, and the most write accepts.
BlockSizes == {1, CHUNK_SIZE - 4, CHUNK_SIZE}

\* A block of n bytes
Block(n) == [i \in 1..n |-> 65]

\* PackageWriter(name, compressor=c, version=v)
InitWriter ==
  /\ \E c \in WriterCompressors, v \in PACKAGE_VERSIONS :
       /\ writer = OpenWriter(c, v, FALSE).w
       /\ wres = [op |-> "open", ok |-> OpenWriter(c, v, FALSE).ok]
  /\ wstate = "open"
  /\ wlog = <<>>
  /\ reader = NoReader /\ rres = Idle /\ yielded = <<>>
  /\ InitUnusedCodec
  /\ InitUnusedFiles

\* writer.write(b) with a block of n bytes; before is the writer the call
\* found.  The caller gives up a writer whose flush raised.
WriteBlock(n) ==
  /\ wstate = "open"
  /\ Len(wlog) < MaxBlocks
  /\ Let(Write(writer, Block(n)), LAMBDA r :
         /\ writer' = r.w
         /\ wres' = [op |-> "write", ok |-> r.ok, n |-> n, before |-> writer]
         /\ wlog' = IF r.ok THEN Append(wlog, n) ELSE wlog
         /\ wstate' = IF r.ok THEN "open" ELSE "write_failed")
  /\ UNCHANGED <<reader, rres, yielded, cx, fileVars>>

\* writer.close()
CloseBlocks ==
  /\ wstate = "open"
  /\ Let(CloseWriter(writer), LAMBDA r :
         /\ writer' = r.w
         /\ wres' = [op |-> "close", ok |-> r.ok, n |-> 0, before |-> writer]
         /\ wstate' = IF r.ok THEN "closed" ELSE "close_failed")
  /\ UNCHANGED <<wlog, reader, rres, yielded, cx, fileVars>>

NextWriter ==
  \/ \E n \in BlockSizes : WriteBlock(n)
  \/ CloseBlocks

SpecWriter == InitWriter /\ [][NextWriter]_vars

\* ------------------------------------------------------------------------
\* Specification SpecUtils: the read and write helpers of IOExtensionMixin
\* on a BytesIO
\* ------------------------------------------------------------------------

\* The longest stream taken from StreamBytes
MaxStreamLen == 3

\* The longest string written
MaxStringLen == 2

\* The integers written are -MaxVarInt .. MaxVarInt
MaxVarInt == 300

\* The bytes of the streams read: zero, a small length, a letter and a byte
\* with the top bit set
StreamBytes == {0, 2, 97, 172}

\* The sequences over S of length at most n
SeqsUpTo(S, n) == UNION {[1..k -> S] : k \in 0..n}

\* The streams read: every short stream, and longer ones that hold a big
\* string whole and cut short
Streams ==
  SeqsUpTo(StreamBytes, MaxStreamLen)
  \cup {<<0, 0, 0, 2, 97>>, <<0, 0, 0, 2, 97, 98>>, <<0, 0, 0, 1, 195, 169>>}

\* The strings written, as sequences of code points: a, b and e-acute
Strings == SeqsUpTo({97, 98, 233}, MaxStringLen)

ReadPrimitives ==
  {"read_int", "read_single", "read_string", "read_big_string",
   "read_7bit_encoded_int"}

\* getattr(stream, p)()
CallRead(p, s) ==
  CASE p = "read_int"              -> read_int(s)
    [] p = "read_single"           -> read_single(s)
    [] p = "read_string"           -> read_string(s)
    [] p = "read_big_string"       -> read_big_string(s)
    [] p = "read_7bit_encoded_int" -> read_7bit_encoded_int(s)

\* The value handed to a helper: the bytes of a stream, a string or an int
InitUtils ==
  /\ \/ \E b \in Streams :
          cx = [phase |-> "input", kind |-> "stream", v |-> b]
     \/ \E str \in Strings :
          cx = [phase |-> "input", kind |-> "string", v |-> str]
     \/ \E n \in (-MaxVarInt)..MaxVarInt :
          cx = [phase |-> "input", kind |-> "int", v |-> n]
  /\ InitUnusedPkg
  /\ InitUnusedFiles

\* BytesIO(b).<p>() ; pos is the stream's tell() afterwards
ReadPrimitive(p) ==
  /\ cx.phase = "input" /\ cx.kind = "stream"
  /\ Let(CallRead(p, BytesIO(cx.v)), LAMBDA r :
         cx' = [phase |-> "read", prim |-> p, bytes |-> cx.v,
                ok |-> r.ok, v |-> r.v, pos |-> r.s.pos])
  /\ UNCHANGED <<pkgVars, fileVars>>

\* BytesIO().write_big_string(s)
WriteBigString ==
  /\ cx.phase = "input" /\ cx.kind = "string"
  /\ cx' = [phase |-> "written", prim |-> "read_big_string", value |-> cx.v,
            bytes |-> write_big_string(cx.v)]
  /\ UNCHANGED <<pkgVars, fileVars>>

\* BytesIO().write_7bit_encoded_int(n)
Write7Bit ==
  /\ cx.phase = "input" /\ cx.kind = "int"
  /\ cx' = [phase |-> "written", prim |-> "read_7bit_encoded_int",
            value |-> cx.v, bytes |-> write_7bit_encoded_int(cx.v)]
  /\ UNCHANGED <<pkgVars, fileVars>>

\* The matching read helper on the bytes written
ReadBack ==
  /\ cx.phase = "written"
  /\ Let(CallRead(cx.prim, BytesIO(cx.bytes)), LAMBDA r :
         cx' = [phase |-> "read_back", prim |-> cx.prim, value |-> cx.value,
                bytes |-> cx.bytes, ok |-> r.ok, v |-> r.v, pos |-> r.s.pos])
  /\ UNCHANGED <<pkgVars, fileVars>>

NextUtils ==
  \/ \E p \in ReadPrimitives : ReadPrimitive(p)
  \/ WriteBigString
  \/ Write7Bit
  \/ ReadBack

SpecUtils == InitUtils /\ [][NextUtils]_vars

\* writer.write(Block(n)) for each n of sizes in turn, on writer wr
RECURSIVE WriteBlocks(_, _)
WriteBlocks(wr, sizes) ==
  IF sizes = <<>> THEN wr
  ELSE WriteBlocks(Write(wr, Block(Head(sizes))).w, Tail(sizes))

\* The file that PackageWriter(name, compressor=c, version=v), the writes
\* of the blocks and close() leave
BlocksFile(c, v, sizes) ==
  CloseWriter(WriteBlocks(OpenWriter(c, v, FALSE).w, sizes)).w.raw

\* ------------------------------------------------------------------------
\* Specification SpecChunks: one chunk of a file is read or skipped by the
\* chunk processor of the file's codec
\* ------------------------------------------------------------------------

\* How many blocks are written to a file whose chunks are read
MaxChunkBlocks == 2

\* The compressors of the files: both forms of the uncompressed codec and
\* the two codecs that compress
ChunkCompressors ==
  {CompressorName("uncompressed"), CompressorCode(<<0>>),
   CompressorName("lz4"), CompressorName("lzf")}

\* What _write_chunk does to the raw file when it takes writer before to
\* writer after: where the chunk starts and ends, and the bytes the writer
\* had put in it, the sentinel endbyte last
ChunkRecord(before, after, endbyte) ==
  [start   |-> Len(before.raw),
   end     |-> Len(after.raw),
   written |-> Append(SubSeq(before.write_buf, 1, before.write_tell), endbyte)]

\* write(b) for each b of blocks and the close on writer wr: the file left
\* and the chunks flushed on the way, in order
RECURSIVE WrittenChunks(_, _, _)
WrittenChunks(wr, blocks, acc) ==
  IF blocks = <<>>
  THEN Let(CloseWriter(wr), LAMBDA r :
           [raw    |-> r.w.raw,
            proc   |-> r.w.proc,
            chunks |-> Append(acc, ChunkRecord(wr, r.w, ENTRY_CODE_END_OF_FILE))])
  ELSE Let(Write(wr, Head(blocks)), LAMBDA r :
           WrittenChunks(r.w, Tail(blocks),
                         IF r.w.vpos[1] > wr.vpos[1]
                         THEN Append(acc, ChunkRecord(wr, r.w, ENTRY_CODE_END_OF_CHUNK))
                         ELSE acc))

\* The files written by the library
WrittenFiles ==
  {WrittenChunks(OpenWriter(c, PACKAGE_VERSION_HADES, FALSE).w,
                 [i \in 1..Len(sizes) |-> Block(sizes[i])], <<>>) :
     c \in ChunkCompressors, sizes \in SeqsUpTo(BlockSizes, MaxChunkBlocks)}

\* Files of a compressed codec whose first chunk is stored raw behind a zero
\* flag byte: a window that holds one entry and the end-of-file sentinel, or
\* zero bytes and the sentinel, alone in the file or before one more chunk
StoredWindows ==
  {LJust(w, CHUNK_SIZE - 4) : w \in {EntryBytes(Include(<<97>>)) \o <<ENTRY_CODE_END_OF_FILE>>,
                                     <<0, 0, 0, 2, ENTRY_CODE_END_OF_FILE>>}}

StoredFiles ==
  {[raw    |-> <<TypeCodeOf(p), 0, 0, PACKAGE_VERSION_HADES, 0>> \o w
                 \o (IF more
                     THEN write_chunk(p, <<ENTRY_CODE_END_OF_FILE>>).data
                     ELSE <<>>),
    proc   |-> p,
    chunks |-> <<[start |-> 4, end |-> 5 + Len(w), written |-> w]>>] :
     p \in {"lz4", "lzf"}, w \in StoredWindows, more \in BOOLEAN}

\* The raw file is positioned at the start of chunk k of one of the files
InitChunks ==
  /\ \E f \in WrittenFiles \cup StoredFiles :
       \E k \in 1..Len(f.chunks) :
         cx = [phase |-> "chunk", proc |-> f.proc, raw |-> f.raw,
               lib |-> f \in WrittenFiles, k |-> k - 1,
               last |-> k = Len(f.chunks),
               start |-> f.chunks[k].start, end |-> f.chunks[k].end,
               written |-> f.chunks[k].written]
  /\ InitUnusedPkg
  /\ InitUnusedFiles

\* processor.read_chunk(raw, chunksize), with the chunksize that
\* PackageReader._read_chunk passes
ChunkRead ==
  /\ cx.phase = "chunk"
  /\ Let(ChunkSizeAt(cx.start), LAMBDA size :
     Let(read_chunk(cx.proc, cx.raw, cx.start, size), LAMBDA r :
         cx' = [phase |-> "read_chunk", proc |-> cx.proc, raw |-> cx.raw,
                lib |-> cx.lib, k |-> cx.k, last |-> cx.last,
                start |-> cx.start, end |-> cx.end, written |-> cx.written,
                size |-> size, ok |-> r.ok, data |-> r.data, pos |-> r.pos]))
  /\ UNCHANGED <<pkgVars, fileVars>>

\* processor.skip_chunk(raw, chunksize), with the chunksize that
\* PackageIO._skip_chunk passes
ChunkSkip ==
  /\ cx.phase = "chunk"
  /\ Let(ChunkSizeAt(cx.start), LAMBDA size :
     Let(skip_chunk(cx.proc, cx.raw, cx.start, size), LAMBDA r :
         cx' = [phase |-> "skip_chunk", proc |-> cx.proc, raw |-> cx.raw,
                lib |-> cx.lib, k |-> cx.k, last |-> cx.last,
                start |-> cx.start, end |-> cx.end, written |-> cx.written,
                size |-> size, ok |-> r.ok, data |-> <<>>, pos |-> r.pos]))
  /\ UNCHANGED <<pkgVars, fileVars>>

NextChunks ==
  \/ ChunkRead
  \/ ChunkSkip

SpecChunks == InitChunks /\ [][NextChunks]_vars

\* ------------------------------------------------------------------------
\* Specification SpecLocs: a reader moves over a package and records where
\* its chunks start
\* ------------------------------------------------------------------------

\* How many entries are written to a package whose chunks are located
MaxLocEntries == 3

\* How many calls a reader is given
MaxLocSteps == 4

\* The packages read: every list of entries, written with each compressor
LocFiles ==
  {WrittenChunks(OpenWriter(c, PACKAGE_VERSION_HADES, FALSE).w,
                 [i \in 1..Len(es) |-> EntryBytes(es[i])], <<>>) :
     c \in ChunkCompressors, es \in SeqsUpTo(PkgEntries, MaxLocEntries)}

\* PackageReader(name) on one of the packages; cx keeps the offsets at
\* which the writer started the chunks, and last the end of the file, where
\* a chunk after the final one would start
InitLocs ==
  /\ \E f \in LocFiles :
       /\ reader = OpenReader(f.raw, FALSE).rd
       /\ cx = [starts |-> Append([k \in 1..Len(f.chunks) |-> f.chunks[k].start],
                                 Len(f.raw))]
  /\ rres = [op |-> "open", ok |-> TRUE, steps |-> 0]
  /\ yielded = <<>>
  /\ writer = Idle /\ wstate = "idle" /\ wres = Idle /\ wlog = <<>>
  /\ InitUnusedFiles

\* reader.read_entry()
LocReadEntry ==
  /\ rres.ok /\ rres.steps < MaxLocSteps
  /\ Let(PackageReader_read_entry(reader), LAMBDA r :
         /\ reader' = r.s
         /\ rres' = [op |-> "read_entry", ok |-> r.ok, steps |-> rres.steps + 1])
  /\ UNCHANGED <<writer, wstate, wres, wlog, yielded, cx, fileVars>>

\* reader.read(size)
LocRead(size) ==
  /\ rres.ok /\ rres.steps < MaxLocSteps
  /\ Let(PkgRead(reader, size), LAMBDA r :
         /\ reader' = r.s
         /\ rres' = [op |-> "read", ok |-> r.ok, steps |-> rres.steps + 1])
  /\ UNCHANGED <<writer, wstate, wres, wlog, yielded, cx, fileVars>>

\* reader._seek_chunk(n), the step seek(pos) takes to reach a chunk n other
\* than the current one
LocSeekChunk(n) ==
  /\ rres.ok /\ rres.steps < MaxLocSteps
  /\ n # reader.vpos[1]
  /\ Let(SeekChunk(reader, n), LAMBDA r :
         /\ reader' = r.rd
         /\ rres' = [op |-> "_seek_chunk", ok |-> r.ok, steps |-> rres.steps + 1])
  /\ UNCHANGED <<writer, wstate, wres, wlog, yielded, cx, fileVars>>

NextLocs ==
  \/ LocReadEntry
  \/ \E n \in {3, CHUNK_SIZE} : LocRead(n)
  \/ \E n \in 0..2 : LocSeekChunk(n)

SpecLocs == InitLocs /\ [][NextLocs]_vars

\* ========================================================================
\* Properties
\* ========================================================================

\* s is an initial segment of t
IsPrefix(s, t) == Len(s) <= Len(t) /\ s = SubSeq(t, 1, Len(s))

\* read_entry has just returned None on the reader, for the first time and
\* with no call before it that raised
ReaderDone ==
  /\ reader # NoReader
  /\ rres.op = "read_entry" /\ ~rres.past
  /\ rres.ok /\ rres.v = <<>>

\* C1 (as stated): round trip.  Every write_entry call returns normally with
\* the entry written, and a package that was closed and read to the end with
\* read_entry has yielded exactly the entries written, in order.
C1_RoundTrip ==
  /\ wres.op = "write_entry" => wres.ok
  /\ ReaderDone => yielded = wlog

\* C2 (as stated): chunk-boundary transparency.  For every codec, however the
\* entries fall relative to the chunk windows, each read_entry call on the
\* closed package, up to the first that returns None, returns normally, the
\* entries read so far are the first entries written, and at the end they
\* are all the entries written.
C2_ChunkTransparent ==
  (reader # NoReader /\ rres.op = "read_entry" /\ ~rres.past) =>
    /\ rres.ok
    /\ IsPrefix(yielded, wlog)
    /\ rres.v = <<>> => yielded = wlog

\* The bytes at virtual positions 4 .. n-1, read from the start by a reader
\* just opened on the file.
FromStart(n) == PkgRead(OpenReader(writer.raw, FALSE).rd, n - 4).data

\* C3 (as stated): seek consistency.  A read(k) that follows seek(p) returns
\* the bytes that reading p+k bytes from the start yields as its last k.
C3_SeekConsistent ==
  (reader # NoReader /\ rres.op = "read" /\ rres.seeked >= 4) =>
    rres.data = PySlice(FromStart(rres.seeked + rres.size),
                        rres.seeked - 4, rres.seeked - 4 + rres.size)

\* The codecs and versions of C6.
C6_Codecs == {"uncompressed", "lz4", "lzf"}

\* C6: header round trip.  A package written with codec uncompressed, lz4 or
\* lzf and version 5 or 7 reports, when reopened, that codec as its type code
\* (0x00, 0x20, 0x40) and that version.
C6_HeaderRoundTrip ==
  (/\ reader # NoReader
   /\ writer.compressor.form = "name"
   /\ writer.compressor.name \in C6_Codecs
   /\ writer.version \in {5, 7}) =>
    /\ rres.op = "open" => rres.ok
    /\ reader.version = writer.version
    /\ reader.compressor =
         CompressorCode(<<CASE writer.compressor.name = "uncompressed" -> 0
                            [] writer.compressor.name = "lz4" -> 32
                            [] writer.compressor.name = "lzf" -> 64>>)

\* C6 witness: an lzf package of version 5 holding three entries in two
\* chunks was closed and has been reopened.
C6_Witness ==
  /\ reader # NoReader
  /\ rres.op = "open"
  /\ writer.compressor = CompressorName("lzf")
  /\ writer.version = 5
  /\ Len(wlog) = 3 /\ writer.vpos[1] = 2

\* C7 (as stated): entry round trip.  For every entry type and every value of
\* its version field, the bytes write_to produces parse back with read_from
\* to a record equal to the original in every field.
C7_EntryRoundTrip ==
  (cx.phase = "read" /\ ~cx.is_manifest) =>
    cx.ok /\ cx.decoded = <<cx.entry>>

\* The entries of a sequence without the companions attached to them
Primaries(es) == [i \in 1..Len(es) |-> [es[i] EXCEPT !.manifest_entry = <<>>]]

\* The last entry of es named n
LastNamed(es, n) ==
  es[CHOOSE i \in 1..Len(es) :
       es[i].name = n /\ \A j \in (i + 1)..Len(es) : es[j].name # n]

\* The names of es
NamesOf(es) == {es[i].name : i \in 1..Len(es)}

\* The entries of pat under the names that do not occur in src, one for each
\* name, in the order in which the names first occur in pat
RECURSIVE Appended(_, _, _)
Appended(src, pat, i) ==
  IF i > Len(pat) THEN <<>>
  ELSE IF pat[i].name \in NamesOf(src) \cup NamesOf(SubSeq(pat, 1, i - 1))
       THEN Appended(src, pat, i + 1)
  ELSE <<LastNamed(pat, pat[i].name)>> \o Appended(src, pat, i + 1)

\* The source entries, each replaced in place by the patch entry of its name
\* when the patches hold one, followed by the appended patch entries
Patched(src, pat) ==
  [i \in 1..Len(src) |->
     IF src[i].name \in NamesOf(pat) THEN LastNamed(pat, src[i].name)
     ELSE src[i]]
  \o Appended(src, pat, 1)

\* C4 (as stated): patch merges.  When N and its manifest exist and the
\* source and the patch package can be read, patch(N, P) returns normally and
\* the entry sequence of N afterwards is the source entries in source order,
\* each replaced in place by the patch entry of its name when there is one,
\* followed by the patch entries whose names do not occur in the source.
C4_PatchMerges ==
  (/\ res.op = "patch"
   /\ res.manifest
   /\ res.before.ok
   /\ res.patch.ok) =>
    /\ res.ok
    /\ res.after.ok
    /\ Primaries(res.after.entries) =
         Patched(Primaries(res.before.entries), Primaries(res.patch.entries))

\* C5 (as stated): patching with no patches is a no-op.  When N and its
\* manifest exist and N can be read, patch(N) with an empty list of patches
\* returns normally and the entries of N, each with the companion attached
\* to it, are afterwards what they were before.
C5_EmptyPatchNoOp ==
  (/\ res.op = "patch"
   /\ res.patches = <<>>
   /\ res.manifest
   /\ res.before.ok) =>
    /\ res.ok
    /\ res.after = res.before

\* C8 (as stated): handles are released.  When close() of a writer with a
\* manifest has returned or raised, the primary and the manifest raw file are
\* both closed; when patch() has returned or raised, no raw file it opened
\* is still open.
C8_HandlesReleased ==
  /\ res.op = "close_writer" => res.primary_closed /\ res.manifest_closed
  /\ res.op = "patch" => res.left = 0

\* C9 (as stated): write_entry_with_manifest(e) returns normally, appends e
\* to the primary package, appends the companion of e to the manifest
\* package when e carries one, and leaves the manifest writer as it was when
\* e carries none.
C9_WriteWithManifest ==
  res.op = "write_entry_with_manifest" =>
    /\ res.ok
    /\ sess.pw.write_buf = res.before.pw.write_buf \o EntryBytes(res.entry)
    /\ res.entry.manifest_entry # <<>> =>
         sess.mw.write_buf =
           res.before.mw.write_buf \o EntryBytes(res.entry.manifest_entry[1])
    /\ res.entry.manifest_entry = <<>> => sess.mw = res.before.mw

\* The entries a manifest file of the directory holds: the file is one of
\* the manifests found at the start or the empty manifest a writer left.
ManifestEntriesOf(bytes) ==
  CHOOSE M \in ManifestEntryLists :
    bytes = PackageFile(CompressorName("uncompressed"), PACKAGE_VERSION_HADES,
                        M, TRUE)

\* C10: every entry a PackageWithManifestReader yields carries the last
\* entry of its name in <name>_manifest as its companion when the manifest
\* holds an entry of that name, and no companion when it holds none or when
\* there is no <name>_manifest file.
C10_Companion ==
  (res.op = "read_entry" /\ res.ok /\ res.v # <<>>) =>
    LET m == fs[res.name \o "_manifest"]
        e == res.v[1]
    IN  IF m = <<>> THEN e.manifest_entry = <<>>
        ELSE /\ \E M \in ManifestEntryLists :
                  m[1] = PackageFile(CompressorName("uncompressed"),
                                     PACKAGE_VERSION_HADES, M, TRUE)
             /\ e.manifest_entry =
                  IF e.name \in NamesOf(ManifestEntriesOf(m[1]))
                  THEN <<LastNamed(ManifestEntriesOf(m[1]), e.name)>>
                  ELSE <<>>

\* C10 witness: the reader of N has yielded the entry named a with the
\* second of the two manifest entries named a as its companion.
C10_Witness ==
  /\ res.op = "read_entry" /\ res.ok
  /\ res.name = "N"
  /\ fs["N_manifest"] =
       <<PackageFile(CompressorName("uncompressed"), PACKAGE_VERSION_HADES,
                     <<CompanionA, CompanionA2>>, TRUE)>>
  /\ res.v = <<[EntryA EXCEPT !.manifest_entry = <<CompanionA2>>]>>

\* C11 (as stated): a version byte other than 5 and 7 is rejected at open.
\* When the fourth byte of the file's header is neither 5 nor 7, the
\* constructor of the reader raises, so that there is no reader and no entry
\* is read.
C11_VersionRejected ==
  rres.raw[4] \notin PACKAGE_VERSIONS =>
    /\ reader = NoReader
    /\ yielded = <<>>

\* C12 (as stated): tell is the position in the decompressed stream.  tell()
\* is 4 after the open, and 4 + n after reads that have returned n bytes in
\* all since the open.
C12_TellCountsBytes ==
  (reader # NoReader /\ rres.op \in {"open", "read"} /\ rres.ok) =>
    Tell(reader) = 4 + rres.consumed

\* C17 (as stated): entries receive the version and the manifest flag of
\* their package.  The entry class of every entry read_entry yields was
\* called with the version found in the package's header and with the
\* reader's is_manifest flag.
C17_EntryGetsPackageVersion ==
  (rres.op = "read_entry" /\ rres.ok /\ rres.v # <<>>) =>
    /\ rres.args.version = reader.version
    /\ rres.args.isManifest = reader.is_manifest

\* C13: the empty package.  A writer of the uncompressed codec and version 7
\* that was closed without a successful write has left exactly the five bytes
\* 00 00 00 07 FF in its file.
C13_EmptyPackageBytes ==
  (/\ wstate = "closed"
   /\ writer.compressor = CompressorName("uncompressed")
   /\ writer.version = 7
   /\ wlog = <<>>) =>
    writer.raw = <<0, 0, 0, 7, 255>>

\* C13 witness: such a writer has been closed.
C13_Witness ==
  /\ wstate = "closed"
  /\ wres = [op |-> "close", ok |-> TRUE]
  /\ writer.compressor = CompressorName("uncompressed")
  /\ writer.version = 7
  /\ wlog = <<>>
  /\ writer.closed

\* C18 (as stated): the size of the write buffer.  The buffer an open writer
\* holds for chunk 0 has CHUNK_SIZE - 4 bytes and the buffer it holds for any
\* later chunk has CHUNK_SIZE bytes.
C18_BufferSizes ==
  wstate = "open" =>
    Len(writer.write_buf) =
      IF writer.vpos[1] = 0 THEN CHUNK_SIZE - 4 ELSE CHUNK_SIZE

\* C20: write(b) with more than CHUNK_SIZE bytes raises and leaves the
\* writer (its buffer, its virtual position, the bytes in the raw file and
\* everything else it holds) as it was.
C20_OversizeRejected ==
  [][WriteOversize => (~wres'.ok /\ writer' = writer)]_vars

\* C20 witness: an oversize write was rejected by a writer that had already
\* written entries and flushed a chunk.
C20_Witness ==
  /\ wres = [op |-> "write_oversize", ok |-> FALSE]
  /\ Len(wlog) = 2
  /\ writer.vpos[1] = 1
  /\ Len(writer.raw) > 4

\* The window of chunk k: what a reader takes chunk k to hold at most
Window(k) == IF k = 0 THEN CHUNK_SIZE - 4 ELSE CHUNK_SIZE

\* C19 (as stated): writes of at most CHUNK_SIZE bytes stay within a chunk.
\* The write buffer of an open writer is never longer than the window of
\* its chunk; a block written lies whole in the buffer of the current chunk;
\* and the contents of a chunk that a write or close has flushed, sentinel
\* included, are no longer than the window of that chunk.
C19_ChunksWithinWindow ==
  /\ wstate = "open" => Len(writer.write_buf) <= Window(writer.vpos[1])
  /\ (wres.op = "write" /\ wres.ok) =>
       /\ writer.write_tell >= wres.n
       /\ SubSeq(writer.write_buf, writer.write_tell - wres.n + 1,
                 writer.write_tell) = Block(wres.n)
  /\ (wres.op \in {"write", "close"} /\ wres.ok
        /\ writer.vpos[1] > wres.before.vpos[1]) =>
       wres.before.write_tell + 1 <= Window(wres.before.vpos[1])

\* The stream b ends before the value read helper p takes from it does
Truncated(p, b) ==
  CASE p \in {"read_int", "read_single"} -> Len(b) < 4
    [] p = "read_string" -> Len(b) = 0 \/ Len(b) < 1 + b[1]
    [] p = "read_big_string" ->
         \/ Len(b) < 4
         \/ b[1] < 128 /\ Len(b) < 4 + FromBytesBE(SubSeq(b, 1, 4))
    [] p = "read_7bit_encoded_int" -> \A i \in 1..Len(b) : b[i] >= 128

\* C14 (as stated): the read helpers fail on a truncated stream.  When the
\* stream holds fewer bytes than the value requires, read_int, read_single,
\* read_string, read_big_string and read_7bit_encoded_int raise.
C14_TruncatedReadFails ==
  (cx.phase = "read" /\ Truncated(cx.prim, cx.bytes)) => ~cx.ok

\* C15 (as stated): big strings round-trip.  The four bytes write_big_string
\* emits first are the big-endian number of body bytes that follow, and
\* read_big_string on the bytes written returns the string and consumes all
\* of them.
C15_BigStringRoundTrip ==
  (cx.phase = "read_back" /\ cx.prim = "read_big_string") =>
    /\ FromBytesBE(SubSeq(cx.bytes, 1, 4)) = Len(cx.bytes) - 4
    /\ cx.ok
    /\ cx.v = cx.value
    /\ cx.pos = Len(cx.bytes)

\* C16 (as stated): 7-bit encoded integers round-trip.  For every integer n
\* of the range, negative ones included, read_7bit_encoded_int on the bytes
\* write_7bit_encoded_int(n) emits returns n and consumes all of them.
C16_VarIntRoundTrip ==
  (cx.phase = "read_back" /\ cx.prim = "read_7bit_encoded_int") =>
    /\ cx.ok
    /\ cx.v = cx.value
    /\ cx.pos = Len(cx.bytes)

\* The bytes the raw file has gained between writer before and writer after
Emitted(before, after) == PyFrom(after.raw, Len(before.raw))

\* The chunk a processor was handed, recovered from the bytes it emitted: the
\* bytes themselves, or the body behind the flag and the length undone
ChunkHanded(proc, bytes) ==
  IF proc = "uncompressed" THEN bytes
  ELSE decompress(proc, PyFrom(bytes, 5), 2 * CHUNK_SIZE).data

\* The bytes emitted are one chunk of the processor and no more
OneChunk(proc, bytes) ==
  /\ Len(bytes) > 0
  /\ proc # "uncompressed" =>
       /\ Len(bytes) > 5
       /\ bytes[1] = 1
       /\ FromBytesBE(SubSeq(bytes, 2, 5)) = Len(bytes) - 5

\* The last byte of a chunk that is not padding
LastWritten(chunk) == chunk[Len(chunk) - TrailingZeros(chunk)]

\* How many bytes of a chunk are sentinels
Sentinels(chunk) ==
  Cardinality({i \in 1..Len(chunk) :
                 chunk[i] \in {ENTRY_CODE_END_OF_CHUNK, ENTRY_CODE_END_OF_FILE}})

\* C21: writes followed by one close hand the processor zero or more chunks
\* whose last written byte is 0xBE and then exactly one whose last written
\* byte is 0xFF.  A write that returns emits nothing or one chunk ending in
\* 0xBE, the close that returns emits one chunk ending in 0xFF and leaves
\* the writer closed, and no chunk holds a sentinel anywhere else.
C21_SentinelOrder ==
  /\ (wres.op = "write" /\ wres.ok) =>
       \/ /\ writer.vpos[1] = wres.before.vpos[1]
          /\ writer.raw = wres.before.raw
       \/ /\ writer.vpos[1] = wres.before.vpos[1] + 1
          /\ Let(Emitted(wres.before, writer), LAMBDA bytes :
             Let(ChunkHanded(writer.proc, bytes), LAMBDA chunk :
                 /\ OneChunk(writer.proc, bytes)
                 /\ LastWritten(chunk) = ENTRY_CODE_END_OF_CHUNK
                 /\ Sentinels(chunk) = 1))
  /\ (wres.op = "close" /\ wres.ok) =>
       /\ wstate = "closed" /\ writer.closed
       /\ writer.vpos[1] = wres.before.vpos[1] + 1
       /\ Let(Emitted(wres.before, writer), LAMBDA bytes :
          Let(ChunkHanded(writer.proc, bytes), LAMBDA chunk :
              /\ OneChunk(writer.proc, bytes)
              /\ LastWritten(chunk) = ENTRY_CODE_END_OF_FILE
              /\ Sentinels(chunk) = 1))
  /\ wstate = "closed" => wres.op = "close"

\* C21 witness: a compressed package closed after two chunks were flushed
C21_Witness ==
  /\ wstate = "closed" /\ wres.op = "close" /\ wres.ok
  /\ writer.proc = "lz4"
  /\ writer.vpos[1] = 3

\* C22 (as stated): the uncompressed codec truncates each chunk to the bytes
\* written, sentinel included, a compressed codec emits the whole window,
\* and the codec given as its type-code byte behaves as the codec given by
\* name.  Every chunk a writer of the uncompressed codec flushes is as long
\* as the bytes written to it plus the sentinel, and a closed file equals
\* the file a writer given the codec's name leaves for the same writes.
C22_CodecForms ==
  /\ (wres.op \in {"write", "close"} /\ wres.ok
        /\ writer.vpos[1] > wres.before.vpos[1]
        /\ writer.proc = "uncompressed") =>
       Len(Emitted(wres.before, writer)) = wres.before.write_tell + 1
  /\ (wstate = "closed" /\ wres.ok) =>
       writer.raw = BlocksFile(CompressorName(writer.proc), writer.version, wlog)

\* C23 (as stated): the compressed codecs branch on the flag byte.  When
\* the flag byte of the chunk is zero, read_chunk returns the chunk_size
\* bytes behind it and skip_chunk passes them, and neither reads a length;
\* otherwise they take the four bytes behind the flag as the length L and
\* read and decompress, or skip, L bytes.
C23_FlagBranch ==
  (cx.phase \in {"read_chunk", "skip_chunk"} /\ cx.proc # "uncompressed") =>
    IF cx.raw[cx.start + 1] = 0
    THEN /\ cx.ok
         /\ cx.pos = cx.start + 1 + cx.size
         /\ cx.phase = "read_chunk" =>
              cx.data = SubSeq(cx.raw, cx.start + 2, cx.start + 1 + cx.size)
    ELSE Let(FromBytesBE(SubSeq(cx.raw, cx.start + 2, cx.start + 5)), LAMBDA L :
             /\ cx.pos = cx.start + 5 + L
             /\ cx.phase = "skip_chunk" => cx.ok
             /\ cx.phase = "read_chunk" =>
                  Let(decompress(cx.proc,
                                 SubSeq(cx.raw, cx.start + 6, cx.start + 5 + L),
                                 cx.size), LAMBDA d :
                      cx.ok = d.ok /\ cx.data = d.data))

\* C24 (as stated): skip_chunk is read_chunk without the data.  On a chunk
\* written by the library's writer, the final and possibly short chunk of
\* an uncompressed package included, skip_chunk returns and leaves the raw
\* file where read_chunk leaves it: at the first byte of the following
\* chunk, or at the end of the file.
C24_SkipIsRead ==
  (cx.phase = "skip_chunk" /\ cx.lib) =>
    /\ cx.ok
    /\ cx.pos = read_chunk(cx.proc, cx.raw, cx.start, cx.size).pos
    /\ cx.pos = cx.end

\* C25 (as stated): read_chunk returns the window.  On a chunk written by
\* the library's writer read_chunk returns exactly chunk_size bytes: the
\* bytes the writer put in the chunk, then zero padding, and no byte of the
\* chunk that follows.
C25_ReadChunkWindow ==
  (cx.phase = "read_chunk" /\ cx.lib) =>
    /\ cx.ok
    /\ Len(cx.data) = cx.size
    /\ cx.data = LJust(cx.written, cx.size)

\* C26 (as stated): the chunk table is exact.  In every state of a reader
\* over a package written by the library, each chunk_locations[k] recorded
\* is the offset of the raw file at which the writer started chunk k.
C26_ChunkLocations ==
  reader # NoReader =>
    \A k \in 1..Len(reader.chunklocs) :
      /\ k <= Len(cx.starts)
      /\ reader.chunklocs[k] = cx.starts[k]

\* C27 (as stated): reads are consecutive slices.  Each read(n) that
\* returns gives the next min(n, bytes remaining) bytes of the decompressed
\* stream; a read that returned fewer than n bytes leaves is_eof() true, and
\* every read after it returns no bytes.
C27_ReadsConsecutive ==
  (reader # NoReader /\ rres.op = "read" /\ rres.ok) =>
    Let(rres.consumed - Len(rres.data), LAMBDA from :
        /\ rres.data = PySlice(DecompressedStream(rres.raw), from, from + rres.size)
        /\ Len(rres.data) < rres.size => ReaderIsEof(reader)
        /\ rres.was_short => rres.data = <<>>)

\* C28 (as stated): the end of file is sticky.  Once read_entry has
\* returned None on reading the end-of-file sentinel, every later call of
\* read_entry on the reader returns None and does not raise, whatever the
\* codec of the package.
C28_EndOfFileSticky ==
  (reader # NoReader /\ rres.op = "read_entry" /\ rres.after_eof) =>
    /\ rres.ok
    /\ rres.v = <<>>

\* The sub-atlas sub of an atlas of the given version as the format's
\* version gates have it decoded: isMulti wherever there is a flag byte
\* (version > 0), isMip for version > 1, isAlpha8 for version > 3, and the
\* hull for version > 2
GatedSubAtlas(version, sub) ==
  [sub EXCEPT !.isMulti  = version > 0 /\ sub.isMulti,
              !.isMip    = version > 1 /\ sub.isMip,
              !.isAlpha8 = version > 3 /\ sub.isAlpha8,
              !.hull     = IF version > 2 THEN sub.hull ELSE <<>>]

\* C29 (as stated): the flags of a sub-atlas are decoded with the version
\* gates of the format.  An atlas entry read from the bytes written for it
\* is read to the last byte, and each of its sub-atlases has isMulti from
\* bit 0x1 of the flag byte whenever the version has a flag byte, isMip from
\* bit 0x2 for version > 1, isAlpha8 from bit 0x4 for version > 3, and its
\* hull for version > 2.  (A manifest is read as references only.)
C29_AtlasFlagGates ==
  (cx.phase = "read" /\ cx.entry.type = "atlas"
     /\ (cx.is_manifest => cx.entry.isReference)) =>
    /\ cx.ok
    /\ cx.left = 0
    /\ Len(cx.decoded[1].subAtlases) = Len(cx.entry.subAtlases)
    /\ \A i \in 1..Len(cx.entry.subAtlases) :
         cx.decoded[1].subAtlases[i] =
           GatedSubAtlas(cx.entry.version, cx.entry.subAtlases[i])

\* C30 (as stated): a failed patch leaves the directory as it found it.
\* When patch(N, ...) raises, the package at N and its manifest at
\* N_manifest are the files they were before the call, and neither N.old
\* nor N.old_manifest exists.
C30_FailedPatchRestores ==
  [][(res'.op = "patch" /\ ~res'.ok) =>
       /\ fs'["N"] = fs["N"]
       /\ fs'["N_manifest"] = fs["N_manifest"]
       /\ fs'["N.old"] = <<>>
       /\ fs'["N.old_manifest"] = <<>>]_vars

====
